---- MODULE Spec2Model ----
(***************************************************************************)
(* Model of the roach-parlor single-page frontend: the authentication      *)
(* context (reducer, mount-time session restore, login, logout, refresh),  *)
(* the persisted token storage, the two HTTP clients with their            *)
(* interceptors, the route guards with the login form, and the wager       *)
(* query cache.                                                            *)
(*                                                                         *)
(* Optional values (T | null) are sequences of length at most one:         *)
(* Null is <<>> and a present value v is <<v>>.                            *)
(***************************************************************************)
EXTENDS Integers, Sequences, FiniteSets, TLC

\* ---------------------------------------------------------------- bounds
\* Largest value of the clock (Date.now() / 1000, in abstract seconds).
MaxTime == 2
\* Lifetime, in clock units, of an access token issued by the backend.
TokenTTL == 1
\* Number of wagers the backend holds.
MaxWagers == 2
\* Largest number of status updates in flight at once.
MaxInFlight == 2
\* Number of pages of the wager list.
MaxPage == 2
\* Largest number of Socket objects io() is asked for in a run.
MaxSockets == 2
\* Longest `line` text of a wager, in characters.
MaxLineLen == 3
\* Longest sequence of actions dispatched to the auth reducer on its own.
MaxDispatch == 3
\* Largest `retry` option of the list query, and the number of steps in
\* which the clock passes the request timeout.
MaxRetry == 3
TimeSteps == 4

\* ---------------------------------------------------------------- values
Null == <<>>
Some(v) == <<v>>

\* User records as returned by the backend (types/auth.ts User).
Users == {[id |-> 1, role |-> "user"], [id |-> 2, role |-> "admin"]}

\* Access tokens. A "jwt" token carries a decodable payload with an exp
\* claim; "noexp" decodes to JSON without exp; "garbage" does not decode.
Jwt(e) == [kind |-> "jwt", exp |-> e]
GarbageToken == [kind |-> "garbage", exp |-> 0]
NoExpToken == [kind |-> "noexp", exp |-> 0]

\* Token the backend issues at time t.
IssueToken(t) == Jwt(t + TokenTTL)

\* Tokens that may already sit in localStorage when the page is loaded.
StoredTokens == {Jwt(0), GarbageToken, NoExpToken}

\* The one refresh token value.
RefreshTok == "r1"

\* Text forms of the persisted user record.
Stringify(u) == [t |-> "json", v |-> Some(u)]
GarbageText == [t |-> "garbage", v |-> Null]

\* JSON.parse: throws on text that is not JSON, else yields the value.
JSONparse(text) == [threw |-> text.t # "json", value |-> text.v]

\* ------------------------------------------------------------ utils/auth
\* isTokenExpired: decode failure -> true; otherwise payload.exp < now
\* (a payload without exp compares undefined < now, which is false).
isTokenExpired(token, currentTime) ==
  IF token.kind = "garbage" THEN TRUE
  ELSE IF token.kind = "noexp" THEN FALSE
  ELSE token.exp < currentTime

createAuthenticatedUser(user, token) ==
  [id |-> user.id, role |-> user.role, token |-> token]

\* Errors: status 0 means no response (network error / thrown Error).
Err(status, detail, message) ==
  [status |-> status, detail |-> detail, message |-> message]

formatAuthError(error) ==
  IF error.detail # "" THEN error.detail
  ELSE IF error.status = 401 THEN "Invalid username or password"
  ELSE IF error.status = 403 THEN "Access denied"
  ELSE IF error.status >= 500 THEN "Server error. Please try again later."
  ELSE IF error.message # "" THEN error.message
  ELSE "An unexpected error occurred"

\* --------------------------------------------------------- token storage
\* localStorage: the three namespaced keys of tokenStorage and the
\* separate 'authToken' key read by the generic HTTP client.
getToken(ls) == ls.token
setToken(ls, token) == [ls EXCEPT !.token = Some(token)]
getRefreshToken(ls) == ls.refreshToken
setUser(ls, user) == [ls EXCEPT !.user = Some(Stringify(user))]
\* getUser: userStr ? JSON.parse(userStr) : null
getUser(ls) ==
  IF ls.user = Null THEN [threw |-> FALSE, value |-> Null]
  ELSE JSONparse(ls.user[1])
\* clearAll that leaves the user record behind.
clearAllKeepUser(ls) ==
  [ls EXCEPT !.token = Null, !.refreshToken = Null]

clearAll(ls) ==
  [ls EXCEPT !.token = Null, !.refreshToken = Null, !.user = Null]

\* ----------------------------------------------------------- auth reducer
NoError == "none"
SessionExpired == "Session expired. Please log in again."

initialState ==
  [user |-> Null, isAuthenticated |-> FALSE, isLoading |-> TRUE,
   error |-> NoError]

\* authReducer whose LOGOUT leaves the user in place.
authReducerLogoutKeepsUser(s, action) ==
  CASE action.type = "LOGIN_START" ->
         [s EXCEPT !.isLoading = TRUE, !.error = NoError]
    [] action.type = "LOGIN_SUCCESS" ->
         [s EXCEPT !.user = Some(action.payload), !.isAuthenticated = TRUE,
                   !.isLoading = FALSE, !.error = NoError]
    [] action.type = "LOGIN_FAILURE" ->
         [s EXCEPT !.user = Null, !.isAuthenticated = FALSE,
                   !.isLoading = FALSE, !.error = action.payload]
    [] action.type = "LOGOUT" ->
         [s EXCEPT !.isAuthenticated = FALSE,
                   !.isLoading = FALSE, !.error = NoError]
    [] action.type = "REFRESH_TOKEN_SUCCESS" ->
         [s EXCEPT !.user = IF s.user # Null
                             THEN Some([s.user[1] EXCEPT
                                          !.token = action.payload])
                             ELSE Null,
                   !.isLoading = FALSE, !.error = NoError]
    [] action.type = "REFRESH_TOKEN_FAILURE" ->
         [s EXCEPT !.user = Null, !.isAuthenticated = FALSE,
                   !.isLoading = FALSE, !.error = SessionExpired]
    [] action.type = "CLEAR_ERROR" ->
         [s EXCEPT !.error = NoError]
    [] action.type = "SET_LOADING" ->
         [s EXCEPT !.isLoading = action.payload]
    [] OTHER -> s

\* authReducer whose LOGIN_SUCCESS leaves isLoading untouched.
authReducerKeepLoading(s, action) ==
  CASE action.type = "LOGIN_START" ->
         [s EXCEPT !.isLoading = TRUE, !.error = NoError]
    [] action.type = "LOGIN_SUCCESS" ->
         [s EXCEPT !.user = Some(action.payload), !.isAuthenticated = TRUE,
                   !.error = NoError]
    [] action.type = "LOGIN_FAILURE" ->
         [s EXCEPT !.user = Null, !.isAuthenticated = FALSE,
                   !.isLoading = FALSE, !.error = action.payload]
    [] action.type = "LOGOUT" ->
         [s EXCEPT !.user = Null, !.isAuthenticated = FALSE,
                   !.isLoading = FALSE, !.error = NoError]
    [] action.type = "REFRESH_TOKEN_SUCCESS" ->
         [s EXCEPT !.user = IF s.user # Null
                             THEN Some([s.user[1] EXCEPT
                                          !.token = action.payload])
                             ELSE Null,
                   !.isLoading = FALSE, !.error = NoError]
    [] action.type = "REFRESH_TOKEN_FAILURE" ->
         [s EXCEPT !.user = Null, !.isAuthenticated = FALSE,
                   !.isLoading = FALSE, !.error = SessionExpired]
    [] action.type = "CLEAR_ERROR" ->
         [s EXCEPT !.error = NoError]
    [] action.type = "SET_LOADING" ->
         [s EXCEPT !.isLoading = action.payload]
    [] OTHER -> s

authReducer(s, action) ==
  CASE action.type = "LOGIN_START" ->
         [s EXCEPT !.isLoading = TRUE, !.error = NoError]
    [] action.type = "LOGIN_SUCCESS" ->
         [s EXCEPT !.user = Some(action.payload), !.isAuthenticated = TRUE,
                   !.isLoading = FALSE, !.error = NoError]
    [] action.type = "LOGIN_FAILURE" ->
         [s EXCEPT !.user = Null, !.isAuthenticated = FALSE,
                   !.isLoading = FALSE, !.error = action.payload]
    [] action.type = "LOGOUT" ->
         [s EXCEPT !.user = Null, !.isAuthenticated = FALSE,
                   !.isLoading = FALSE, !.error = NoError]
    [] action.type = "REFRESH_TOKEN_SUCCESS" ->
         [s EXCEPT !.user = IF s.user # Null
                             THEN Some([s.user[1] EXCEPT
                                          !.token = action.payload])
                             ELSE Null,
                   !.isLoading = FALSE, !.error = NoError]
    [] action.type = "REFRESH_TOKEN_FAILURE" ->
         [s EXCEPT !.user = Null, !.isAuthenticated = FALSE,
                   !.isLoading = FALSE, !.error = SessionExpired]
    [] action.type = "CLEAR_ERROR" ->
         [s EXCEPT !.error = NoError]
    [] action.type = "SET_LOADING" ->
         [s EXCEPT !.isLoading = action.payload]
    [] OTHER -> s

Act(type, payload) == [type |-> type, payload |-> payload]

\* ------------------------------------------------------------------ state
VARIABLES
  state,        \* AuthState held by the AuthProvider's reducer
  storage,      \* localStorage
  now,          \* Date.now() / 1000
  initPc,       \* position of initializeAuth: start, refreshing, done, threw
  initUser,     \* the user initializeAuth read before awaiting the refresh
  loginCall,    \* LoginForm.handleSubmit / login(): pc, captured `from`, user
  logoutPc,     \* logout(): idle or awaiting
  refreshPc,    \* context refreshToken(): idle or awaiting
  authReq,      \* per caller, the request in flight on authApi
  lastResponse, \* the response delivered by the last step, and how the
                \* operation it belongs to settled towards its caller
  location,     \* router location: pathname and state.from
  validationErrors, \* LoginForm shows a field validation error
  navPending,   \* hard navigation requested via window.location.href
  loadedBy,     \* what caused the page load whose initializeAuth is running
  apiReq,       \* the request in flight on the generic HTTP client
  server,       \* backend: status of each wager
  wagerCache,   \* query cache entries ['wager', id]
  listCache,    \* query cache entry ['wagers', params]: data and staleness
  mutations,    \* status-update mutations in flight
  lastMutation, \* the mutation settled by the last step
  wagers,       \* WagerList prop `wagers`: displayed id -> status, archived
  loading,      \* WagerList prop `loading`
  showBulkActions, \* WagerList prop `showBulkActions`
  onWagerEdit,  \* WagerList prop `onWagerEdit` was supplied
  selectedWagers,  \* WagerList state: Set<number>, in insertion order
  bulkMenuAnchor,  \* WagerList state: the bulk menu is open
  cards,        \* per mounted WagerCard: anchorEl, statusMenuAnchor
  handlerCalls, \* calls the last step made on the handlers passed as props
  filters,      \* Wagers page state: the applied filter set
  currentPage,  \* Wagers page state: the current page
  showFilters,  \* WagerList state: the filter panel is shown
  localFilters, \* WagerFilters state: the draft (Null while unmounted)
  lastRequest,  \* query string of the last wager-list request
  filterEvent,  \* the handler of the filter UI that ran in the last step
  sockets,      \* every Socket made by io(), in order: its connection status
  socket,       \* SocketService.socket: the index of a Socket, or Null
  reconnectAttempts, \* SocketService.reconnectAttempts
  timers,       \* number of pending setTimeout callbacks of attemptReconnect
  reconnectsMade,    \* reconnects started by timers since the last 'connect'
  socketEvent,  \* what the socket service did in the last step
  call,         \* a call of a service or utility function: name and arguments
  outcome,      \* what that call returned or sent (Null before it ran)
  smoke,        \* a run of ci_smoke.sh after `trap cleanup EXIT` (or Null)
  preview,      \* a run of the preview setup script and of its cleanup
  dispatched,   \* types of the actions dispatched to a reducer on its own
  fetch,        \* one list query on the generic client: phase, time waited
  searchInput,  \* SearchInput: localValue and the pending debounce timer
  searchLog     \* what the user entered and applied last, and what the
                \* SearchInput delivered last to its onChange

vars ==
  <<state, storage, now, initPc, initUser, loginCall, logoutPc, refreshPc,
    authReq, lastResponse, location, validationErrors, navPending,
    loadedBy, apiReq, server, wagerCache, listCache, mutations,
    lastMutation, wagers, loading, showBulkActions, onWagerEdit,
    selectedWagers, bulkMenuAnchor, cards, handlerCalls, filters,
    currentPage, showFilters, localFilters, lastRequest, filterEvent,
    sockets, socket, reconnectAttempts, timers, reconnectsMade,
    socketEvent, call, outcome, smoke, preview, dispatched, fetch, searchInput, searchLog>>

cacheVars == <<server, wagerCache, listCache, mutations, lastMutation>>

\* State and props of the WagerList component and its cards.
listVars ==
  <<wagers, loading, showBulkActions, onWagerEdit, selectedWagers,
    bulkMenuAnchor, cards, handlerCalls>>

\* Filter set and page of the Wagers page, and the filter panel's draft.
filterVars ==
  <<filters, currentPage, showFilters, localFilters, lastRequest,
    filterEvent, searchInput, searchLog>>

\* Fields of the SocketService singleton and the sockets it made.
socketVars ==
  <<sockets, socket, reconnectAttempts, timers, reconnectsMade,
    socketEvent>>

\* A call of a stateless function and its outcome.
callVars == <<call, outcome>>

\* A run of scripts/ci_smoke.sh and a run of the preview scripts.
scriptVars == <<smoke, preview, dispatched, fetch>>

\* State outside the auth context and the query cache.
uiVars == <<listVars, filterVars, socketVars, callVars, scriptVars>>

\* Variables of the auth context, the HTTP clients and the query cache.
appVars ==
  <<state, storage, now, initPc, initUser, loginCall, logoutPc, refreshPc,
    authReq, lastResponse, location, validationErrors, navPending,
    loadedBy, apiReq, server, wagerCache, listCache, mutations,
    lastMutation>>

\* What the handlers of the WagerList and its cards leave alone, and what
\* the handlers of the filter UI leave alone.
listFrame == <<appVars, filterVars, socketVars, callVars, scriptVars>>
filterFrame == <<appVars, listVars, socketVars, callVars, scriptVars>>
socketFrame == <<appVars, listVars, filterVars, callVars, scriptVars>>
callFrame == <<appVars, listVars, filterVars, socketVars, scriptVars>>
scriptFrame == <<appVars, listVars, filterVars, socketVars, callVars>>

Callers == {"login", "logout"}
IdleReq == [phase |-> "idle", retry |-> FALSE, replays |-> 0, hdr |-> Null]
IdleLogin == [pc |-> "idle", from |-> "/", user |-> Null]
NoResponse == [to |-> "none", status |-> 0, settled |-> "none"]
Resp(to, status, settled) ==
  [to |-> to, status |-> status, settled |-> settled]
IdleApi == [phase |-> "idle", hdr |-> Null]

\* Wagers known to the backend and the statuses used for them.
Ids == 1..MaxWagers
WagerStatuses == {"pending", "won", "lost"}
\* Statuses chosen from the status menu in the runs explored.
UpdateStatuses == {"won", "lost"}

\* The query cache of a freshly loaded page.
CacheEmpty ==
  /\ wagerCache = [i \in Ids |-> Null]
  /\ listCache = Null
  /\ mutations = {}
  /\ lastMutation = Null

Paths == {"/", "/wagers", "/admin", "/login"}
Loc(pathname, from) == [pathname |-> pathname, from |-> from]

\* State of a freshly loaded page at path p over the localStorage ls.
Loaded(ls, t, p, cause) ==
  /\ state = initialState
  /\ storage = ls
  /\ now = t
  /\ initPc = "start"
  /\ initUser = Null
  /\ loginCall = IdleLogin
  /\ logoutPc = "idle"
  /\ refreshPc = "idle"
  /\ authReq = [c \in Callers |-> IdleReq]
  /\ lastResponse = NoResponse
  /\ location = Loc(p, Null)
  /\ validationErrors = FALSE
  /\ navPending = "none"
  /\ loadedBy = cause
  /\ apiReq = IdleApi

\* Every content localStorage can have when the application is opened.
InitialStorages ==
  [token : {Null} \cup {Some(t) : t \in StoredTokens},
   refreshToken : {Null, Some(RefreshTok)},
   user : {Null, Some(GarbageText)} \cup {Some(Stringify(u)) : u \in Users},
   authToken : {Null, Some(Jwt(0))}]

\* The WagerList is not mounted: no wager displayed, nothing selected.
ListIdle ==
  /\ wagers = [i \in Ids |-> Null]
  /\ loading = FALSE
  /\ showBulkActions = FALSE
  /\ onWagerEdit = FALSE
  /\ selectedWagers = <<>>
  /\ bulkMenuAnchor = FALSE
  /\ cards = [i \in Ids |-> Null]
  /\ handlerCalls = <<>>

\* A WagerFilters value: status is the array (empty when undefined), the
\* other fields are absent (undefined) or present.
FilterSet(status, archived, search, sortBy) ==
  [status |-> status, archived |-> archived, search |-> search,
   sortBy |-> sortBy]

\* {} as a WagerFilters value.
NoFilters == FilterSet(<<>>, Null, Null, Null)

\* useState of the Wagers page: {archived: false, sortBy: 'createdAt', ...}
InitialFilters == FilterSet(<<>>, Some(FALSE), Null, Some("createdAt"))

\* The Wagers page is not mounted: no request was made.
FilterIdle ==
  /\ filters = InitialFilters
  /\ currentPage = 1
  /\ showFilters = FALSE
  /\ localFilters = Null
  /\ lastRequest = <<>>
  /\ filterEvent = "none"
  /\ searchInput = [localValue |-> "", timer |-> Null]
  /\ searchLog = [typed |-> Null, applied |-> Null, delivered |-> Null,
                  cleared |-> FALSE]

\* The SocketService singleton as constructed.
SocketIdle ==
  /\ sockets = <<>>
  /\ socket = Null
  /\ reconnectAttempts = 0
  /\ timers = 0
  /\ reconnectsMade = 0
  /\ socketEvent = "none"

\* No function call is under way.
CallIdle == call = Null /\ outcome = Null

\* No script was started.
ScriptIdle ==
  smoke = Null /\ preview = Null /\ dispatched = <<>> /\ fetch = Null

UiIdle == ListIdle /\ FilterIdle /\ SocketIdle /\ CallIdle /\ ScriptIdle

\* The clock value is an input of the run: the application is opened at
\* any time up to MaxTime, with tokens stored before that.
Init ==
  /\ \E ls \in InitialStorages, p \in Paths, t \in 0..MaxTime :
       Loaded(ls, t, p, "open")
  /\ CacheEmpty
  /\ server = [i \in Ids |-> "pending"]
  /\ UiIdle

\* ------------------------------------------------------- initializeAuth
\* AuthContext.tsx useEffect: runs once per page load.
InitializeAuth ==
  /\ initPc = "start"
  /\ LET token == getToken(storage)
         user == getUser(storage)
     IN IF user.threw
        THEN \* JSON.parse throws: the async function rejects, nothing runs
             /\ initPc' = "threw"
             /\ loadedBy' = "open"
             /\ UNCHANGED <<state, storage, initUser>>
        ELSE IF token # Null /\ user.value # Null
        THEN IF isTokenExpired(token[1], now)
             THEN IF getRefreshToken(storage) = Null
                  THEN \* authService.refreshToken throws: catch branch
                       /\ storage' = clearAll(storage)
                       /\ state' = authReducer(state,
                                     Act("REFRESH_TOKEN_FAILURE", Null))
                       /\ initPc' = "done"
                       /\ loadedBy' = "open"
                       /\ UNCHANGED initUser
                  ELSE /\ initPc' = "refreshing"
                       /\ initUser' = user.value
                       /\ UNCHANGED <<state, storage, loadedBy>>
             ELSE /\ state' = authReducer(state, Act("LOGIN_SUCCESS",
                         createAuthenticatedUser(user.value[1], token[1])))
                  /\ initPc' = "done"
                  /\ loadedBy' = "open"
                  /\ UNCHANGED <<storage, initUser>>
        ELSE /\ state' = authReducer(state, Act("SET_LOADING", FALSE))
             /\ initPc' = "done"
             /\ loadedBy' = "open"
             /\ UNCHANGED <<storage, initUser>>
  /\ lastResponse' = NoResponse
  /\ UNCHANGED <<cacheVars, uiVars>>
  /\ UNCHANGED <<now, loginCall, logoutPc, refreshPc, authReq, location,
                 validationErrors, navPending, apiReq>>

\* The refresh request of initializeAuth settles (axios.post resolves/rejects).
InitRefreshRespond(ok) ==
  /\ initPc = "refreshing"
  /\ IF ok
     THEN LET newToken == IssueToken(now)
          IN /\ storage' = setToken(storage, newToken)
             /\ state' = authReducer(state, Act("LOGIN_SUCCESS",
                           createAuthenticatedUser(initUser[1], newToken)))
     ELSE /\ storage' = clearAll(storage)
          /\ state' = authReducer(state, Act("REFRESH_TOKEN_FAILURE", Null))
  /\ initPc' = "done"
  /\ initUser' = Null
  /\ loadedBy' = "open"
  /\ lastResponse' = Resp("initRefresh", IF ok THEN 200 ELSE 401, "none")
  /\ UNCHANGED <<cacheVars, uiVars>>
  /\ UNCHANGED <<now, loginCall, logoutPc, refreshPc, authReq, location,
                 validationErrors, navPending, apiReq>>

\* ------------------------------------------------- authApi interceptors
\* Request interceptor of authApi (services/auth.ts): attach the stored
\* access token as Authorization: Bearer <token>.
authRequestInterceptor(ls) == getToken(ls)

SendAuthReq(ls) ==
  [phase |-> "sent", retry |-> FALSE, replays |-> 0,
   hdr |-> authRequestInterceptor(ls)]

RefreshError == Err(401, "", "Request failed with status code 401")

\* Response interceptor of authApi for a response with the given status.
\* result: "ok" resolves the caller, "fail" rejects it with error, and
\* "pending" means the refresh request has been sent and is awaited.
authResponseInterceptor(req, ls, status, detail) ==
  IF status = 200
  THEN [req |-> IdleReq, storage |-> ls, nav |-> FALSE,
        result |-> "ok", error |-> Err(0, "", "")]
  ELSE IF status = 401 /\ ~req.retry /\ getRefreshToken(ls) # Null
  THEN [req |-> [req EXCEPT !.phase = "refreshing", !.retry = TRUE],
        storage |-> ls, nav |-> FALSE,
        result |-> "pending", error |-> Err(0, "", "")]
  ELSE [req |-> IdleReq, storage |-> ls, nav |-> FALSE,
        result |-> "fail", error |-> Err(status, detail, "Request failed")]

\* The refresh request sent by the response interceptor settles.
authRefreshSettled(req, ls, ok, t) ==
  IF ok
  THEN LET access_token == IssueToken(t)
           ls2 == setToken(ls, access_token)
       IN [req |-> [req EXCEPT !.phase = "sent",
                               !.replays = req.replays + 1,
                               !.hdr = authRequestInterceptor(ls2)],
           storage |-> ls2, nav |-> FALSE,
           result |-> "pending", error |-> Err(0, "", "")]
  ELSE [req |-> IdleReq, storage |-> clearAll(ls),
        nav |-> TRUE, result |-> "fail", error |-> RefreshError]

Settled(result) ==
  IF result = "ok" THEN "resolved"
  ELSE IF result = "fail" THEN "rejected" ELSE "pending"

\* No operation of the auth context is in flight.
AuthIdle ==
  /\ initPc \in {"done", "threw"}
  /\ loginCall.pc = "idle"
  /\ logoutPc = "idle"
  /\ refreshPc = "idle"

\* ---------------------------------------------------------------- login
Credentials == [username : {"", "alice", "root"}, password : {"", "pw"}]

UserFor(username) ==
  IF username = "root" THEN [id |-> 2, role |-> "admin"]
  ELSE [id |-> 1, role |-> "user"]

\* LoginForm.validateForm
validateForm(credentials) ==
  credentials.username # "" /\ credentials.password # ""

\* `from` that ignores the location state.
FromOfRoot(loc) == "/"

\* LoginForm: const from = location.state?.from?.pathname || '/'
FromOf(loc) == IF loc.from # Null THEN loc.from[1] ELSE "/"

\* LoginForm.handleSubmit up to the await of login(credentials); the
\* fields and the submit button are disabled while isLoading.
HandleSubmit(credentials) ==
  /\ location.pathname = "/login"
  /\ ~state.isLoading
  /\ AuthIdle
  /\ IF ~validateForm(credentials)
     THEN /\ validationErrors' = TRUE
          /\ UNCHANGED <<state, loginCall, authReq>>
     ELSE /\ validationErrors' = FALSE
          /\ state' = authReducer(authReducer(state, Act("CLEAR_ERROR", Null)),
                                  Act("LOGIN_START", Null))
          /\ loginCall' = [pc |-> "awaiting", from |-> FromOf(location),
                           user |-> Some(UserFor(credentials.username))]
          /\ authReq' = [authReq EXCEPT !["login"] = SendAuthReq(storage)]
  /\ lastResponse' = NoResponse
  /\ UNCHANGED <<cacheVars, uiVars>>
  /\ UNCHANGED <<storage, now, initPc, initUser, logoutPc, refreshPc,
                 location, navPending, loadedBy, apiReq>>

\* Continuation of login() and of handleSubmit once the service call of
\* login has settled as r: on success persist, dispatch and navigate(from);
\* on failure dispatch LOGIN_FAILURE and re-throw (handleSubmit logs it).
LoginSettled(r) ==
  /\ authReq' = [authReq EXCEPT !["login"] = r.req]
  /\ navPending' = IF r.nav THEN "auth401" ELSE navPending
  /\ CASE r.result = "pending" ->
            /\ storage' = r.storage
            /\ UNCHANGED <<state, loginCall, location, validationErrors>>
       [] r.result = "ok" ->
            LET access_token == IssueToken(now)
                user == loginCall.user[1]
            IN /\ storage' = setUser(setToken(r.storage, access_token), user)
               /\ state' = authReducer(state, Act("LOGIN_SUCCESS",
                             createAuthenticatedUser(user, access_token)))
               /\ location' = Loc(loginCall.from, Null)
               /\ validationErrors' = FALSE
               /\ loginCall' = IdleLogin
       [] r.result = "fail" ->
            /\ storage' = r.storage
            /\ state' = authReducer(state, Act("LOGIN_FAILURE",
                                              formatAuthError(r.error)))
            /\ loginCall' = IdleLogin
            /\ UNCHANGED <<location, validationErrors>>
  /\ UNCHANGED <<cacheVars, uiVars>>
  /\ UNCHANGED <<now, initPc, initUser, logoutPc, refreshPc, loadedBy,
                 apiReq>>

LoginResponse(status, detail) ==
  /\ loginCall.pc = "awaiting"
  /\ authReq["login"].phase = "sent"
  /\ LET r == authResponseInterceptor(authReq["login"], storage,
                                      status, detail)
     IN /\ lastResponse' = Resp("login", status, Settled(r.result))
        /\ LoginSettled(r)

LoginRefreshResponse(ok) ==
  /\ loginCall.pc = "awaiting"
  /\ authReq["login"].phase = "refreshing"
  /\ LET r == authRefreshSettled(authReq["login"], storage, ok, now)
     IN /\ lastResponse' = Resp("loginRefresh", IF ok THEN 200 ELSE 401,
                                Settled(r.result))
        /\ LoginSettled(r)

\* --------------------------------------------------------------- logout
\* logout(): authService.logout() posts /auth/logout on authApi.
LogoutStart ==
  /\ AuthIdle
  /\ logoutPc' = "awaiting"
  /\ authReq' = [authReq EXCEPT !["logout"] = SendAuthReq(storage)]
  /\ lastResponse' = NoResponse
  /\ UNCHANGED <<cacheVars, uiVars>>
  /\ UNCHANGED <<state, storage, now, initPc, initUser, loginCall, refreshPc,
                 location, validationErrors, navPending, loadedBy, apiReq>>

\* authService.logout: catch (warn) / finally clearAll; then the context's
\* finally dispatches LOGOUT. The promise of logout() always resolves.
LogoutSettled(r) ==
  /\ authReq' = [authReq EXCEPT !["logout"] = r.req]
  /\ navPending' = IF r.nav THEN "auth401" ELSE navPending
  /\ IF r.result = "pending"
     THEN /\ storage' = r.storage
          /\ UNCHANGED <<state, logoutPc>>
     ELSE /\ storage' = clearAll(r.storage)
          /\ state' = authReducer(state, Act("LOGOUT", Null))
          /\ logoutPc' = "idle"
  /\ UNCHANGED <<cacheVars, uiVars>>
  /\ UNCHANGED <<now, initPc, initUser, loginCall, refreshPc, location,
                 validationErrors, loadedBy, apiReq>>

LogoutResponse(status) ==
  /\ logoutPc = "awaiting"
  /\ authReq["logout"].phase = "sent"
  /\ LET r == authResponseInterceptor(authReq["logout"], storage, status, "")
     IN /\ lastResponse' =
             Resp("logout", status,
                  IF r.result = "pending" THEN "pending" ELSE "resolved")
        /\ LogoutSettled(r)

LogoutRefreshResponse(ok) ==
  /\ logoutPc = "awaiting"
  /\ authReq["logout"].phase = "refreshing"
  /\ LET r == authRefreshSettled(authReq["logout"], storage, ok, now)
     IN /\ lastResponse' =
             Resp("logoutRefresh", IF ok THEN 200 ELSE 401,
                  IF r.result = "pending" THEN "pending" ELSE "resolved")
        /\ LogoutSettled(r)

\* ------------------------------------------------- context refreshToken
RefreshStart ==
  /\ AuthIdle
  /\ IF getRefreshToken(storage) = Null
     THEN \* authService.refreshToken throws 'No refresh token available'
          /\ storage' = clearAll(storage)
          /\ state' = authReducer(state, Act("REFRESH_TOKEN_FAILURE", Null))
          /\ lastResponse' = Resp("refresh", 0, "rejected")
          /\ UNCHANGED refreshPc
     ELSE /\ refreshPc' = "awaiting"
          /\ lastResponse' = NoResponse
          /\ UNCHANGED <<state, storage>>
  /\ UNCHANGED <<cacheVars, uiVars>>
  /\ UNCHANGED <<now, initPc, initUser, loginCall, logoutPc, authReq,
                 location, validationErrors, navPending, loadedBy, apiReq>>

RefreshResponse(ok) ==
  /\ refreshPc = "awaiting"
  /\ IF ok
     THEN LET newToken == IssueToken(now)
          IN /\ storage' = setToken(storage, newToken)
             /\ state' = authReducer(state,
                           Act("REFRESH_TOKEN_SUCCESS", newToken))
             /\ lastResponse' = Resp("refresh", 200, "resolved")
     ELSE /\ storage' = clearAll(storage)
          /\ state' = authReducer(state, Act("REFRESH_TOKEN_FAILURE", Null))
          /\ lastResponse' = Resp("refresh", 401, "rejected")
  /\ refreshPc' = "idle"
  /\ UNCHANGED <<cacheVars, uiVars>>
  /\ UNCHANGED <<now, initPc, initUser, loginCall, logoutPc, authReq,
                 location, validationErrors, navPending, loadedBy, apiReq>>

\* clearError(), called by LoginForm.handleInputChange when an error shows.
ClearError ==
  /\ location.pathname = "/login"
  /\ state.error # NoError
  /\ state' = authReducer(state, Act("CLEAR_ERROR", Null))
  /\ lastResponse' = NoResponse
  /\ UNCHANGED <<cacheVars, uiVars>>
  /\ UNCHANGED <<storage, now, initPc, initUser, loginCall, logoutPc,
                 refreshPc, authReq, location, validationErrors,
                 navPending, loadedBy, apiReq>>

\* ---------------------------------------------------------- route guards
\* ProtectedRoute without the isLoading branch.
ProtectedRouteNoLoading(s, requiredRole) ==
  IF ~s.isAuthenticated \/ s.user = Null THEN "redirect"
  ELSE IF requiredRole # "" /\ s.user[1].role # requiredRole
          /\ requiredRole = "admin" /\ s.user[1].role # "admin"
       THEN "denied"
  ELSE "children"

\* ProtectedRoute: what the guard renders for the auth state s.
ProtectedRoute(s, requiredRole) ==
  IF s.isLoading THEN "loading"
  ELSE IF ~s.isAuthenticated \/ s.user = Null THEN "redirect"
  ELSE IF requiredRole # "" /\ s.user[1].role # requiredRole
          /\ requiredRole = "admin" /\ s.user[1].role # "admin"
       THEN "denied"
  ELSE "children"

\* AdminRoute that forgets to pass requiredRole.
AdminRouteNoRole(s) == ProtectedRoute(s, "")

AdminRoute(s) == ProtectedRoute(s, "admin")

\* App: the element rendered for each path.
Render(s, pathname) ==
  IF pathname = "/login" THEN "login"
  ELSE IF pathname = "/admin" THEN AdminRoute(s)
  ELSE ProtectedRoute(s, "")

\* <Navigate to="/login" state={{ from: location }} replace />
GuardRedirect ==
  /\ Render(state, location.pathname) = "redirect"
  /\ location' = Loc("/login", Some(location.pathname))
  /\ lastResponse' = NoResponse
  /\ UNCHANGED <<cacheVars, uiVars>>
  /\ UNCHANGED <<state, storage, now, initPc, initUser, loginCall, logoutPc,
                 refreshPc, authReq, validationErrors, navPending,
                 loadedBy, apiReq>>

\* Client-side navigation to path p (navigation tabs, history, links);
\* leaving /login unmounts the form and drops its local state. A rendered
\* <Navigate> takes effect before any further user navigation.
Visit(p) ==
  /\ p # location.pathname
  /\ Render(state, location.pathname) # "redirect"
  /\ location' = Loc(p, Null)
  /\ validationErrors' = FALSE
  /\ lastResponse' = NoResponse
  /\ UNCHANGED <<cacheVars, uiVars>>
  /\ UNCHANGED <<state, storage, now, initPc, initUser, loginCall, logoutPc,
                 refreshPc, authReq, navPending, loadedBy, apiReq>>

\* --------------------------------------------------- generic HTTP client
\* Request interceptor of the generic client: the token is read from the
\* 'authToken' key of localStorage.
apiRequestInterceptor(ls) == ls.authToken

\* Response error interceptor of the generic client: on 401 remove
\* 'authToken' and set window.location.href = '/login'.
apiResponseInterceptor(ls, status) ==
  [storage |-> IF status = 401 THEN [ls EXCEPT !.authToken = Null] ELSE ls,
   nav |-> (status = 401)]

\* A wager request leaves through the generic client; the wager hooks run
\* on the Wagers page, which is rendered behind ProtectedRoute.
ApiSend ==
  /\ location.pathname = "/wagers"
  /\ Render(state, location.pathname) = "children"
  /\ apiReq.phase = "idle"
  /\ apiReq' = [phase |-> "sent", hdr |-> apiRequestInterceptor(storage)]
  /\ lastResponse' = NoResponse
  /\ UNCHANGED <<cacheVars, uiVars>>
  /\ UNCHANGED <<state, storage, now, initPc, initUser, loginCall, logoutPc,
                 refreshPc, authReq, location, validationErrors,
                 navPending, loadedBy>>

ApiRespond(status) ==
  /\ apiReq.phase = "sent"
  /\ LET r == apiResponseInterceptor(storage, status)
     IN /\ storage' = r.storage
        /\ navPending' = IF r.nav THEN "api401" ELSE navPending
  /\ apiReq' = IdleApi
  /\ lastResponse' = Resp("api", status,
                          IF status = 200 THEN "resolved" ELSE "rejected")
  /\ UNCHANGED <<cacheVars, uiVars>>
  /\ UNCHANGED <<state, now, initPc, initUser, loginCall, logoutPc,
                 refreshPc, authReq, location, validationErrors, loadedBy>>

\* ------------------------------------------------------------ environment
\* The hard navigation takes effect: the document is replaced, the
\* application starts again at /login over the same localStorage, with
\* an empty in-memory query cache.
Reload ==
  /\ navPending # "none"
  /\ state' = initialState
  /\ initPc' = "start"
  /\ initUser' = Null
  /\ loginCall' = IdleLogin
  /\ logoutPc' = "idle"
  /\ refreshPc' = "idle"
  /\ authReq' = [c \in Callers |-> IdleReq]
  /\ lastResponse' = NoResponse
  /\ location' = Loc("/login", Null)
  /\ validationErrors' = FALSE
  /\ loadedBy' = navPending
  /\ navPending' = "none"
  /\ apiReq' = IdleApi
  /\ wagerCache' = [i \in Ids |-> Null]
  /\ listCache' = Null
  /\ mutations' = {}
  /\ lastMutation' = Null
  /\ UNCHANGED <<storage, now, server>>
  /\ UNCHANGED uiVars

Statuses == {200, 401, 500}

Next ==
  \/ InitializeAuth
  \/ \E ok \in BOOLEAN : InitRefreshRespond(ok)
  \/ \E credentials \in Credentials : HandleSubmit(credentials)
  \/ \E status \in Statuses, detail \in {"", "Invalid credentials"} :
       /\ (detail # "" => status = 401)
       /\ LoginResponse(status, detail)
  \/ \E ok \in BOOLEAN : LoginRefreshResponse(ok)
  \/ LogoutStart
  \/ \E status \in Statuses : LogoutResponse(status)
  \/ \E ok \in BOOLEAN : LogoutRefreshResponse(ok)
  \/ RefreshStart
  \/ \E ok \in BOOLEAN : RefreshResponse(ok)
  \/ ClearError
  \/ GuardRedirect
  \/ \E p \in Paths : Visit(p)
  \/ ApiSend
  \/ \E status \in Statuses : ApiRespond(status)
  \/ Reload

Spec == Init /\ [][Next]_vars

\* The effect of a mounted provider runs, and the refresh request it awaits
\* eventually resolves or rejects.
SpecInitLive ==
  /\ Spec
  /\ WF_vars(InitializeAuth)
  /\ SF_vars(\E ok \in BOOLEAN : InitRefreshRespond(ok))

\* ------------------------------------------------------ wager query cache
\* Variables of the auth side that no wager hook touches.
authFrame ==
  <<state, now, initPc, initUser, loginCall, logoutPc, refreshPc, authReq,
    location, validationErrors, loadedBy, apiReq>>

\* The Wagers page is mounted: its hooks run and its cards are clickable.
WagersPage ==
  /\ location.pathname = "/wagers"
  /\ Render(state, location.pathname) = "children"

\* ApiResponse<Wager> envelope returned by the status endpoint.
Envelope(id, status) ==
  [data |-> [id |-> id, status |-> status], success |-> TRUE]

\* useWagers: the list query fetches when it has no data or is stale
\* (an invalidated active query refetches); wagerService.getWagers goes
\* through the generic client and its interceptors.
FetchWagers(status) ==
  /\ WagersPage
  /\ IF listCache = Null THEN TRUE ELSE listCache[1].stale
  /\ LET r == apiResponseInterceptor(storage, status)
     IN /\ storage' = r.storage
        /\ navPending' = IF r.nav THEN "api401" ELSE navPending
  /\ listCache' = IF status = 200
                  THEN Some([data |-> server, stale |-> FALSE])
                  ELSE listCache
  /\ lastResponse' = Resp("list", status,
                          IF status = 200 THEN "resolved" ELSE "rejected")
  /\ lastMutation' = Null
  /\ UNCHANGED <<server, wagerCache, mutations>>
  /\ UNCHANGED <<authFrame, uiVars>>

\* handleWagerStatusUpdate -> updateStatusMutation.mutateAsync({id, status}):
\* the request is sent. The status menu is offered on a displayed card
\* whose wager is pending.
UpdateStatusSend(id, status) ==
  /\ WagersPage
  /\ listCache # Null
  /\ listCache[1].data[id] = "pending"
  /\ Cardinality(mutations) < MaxInFlight
  /\ [id |-> id, status |-> status, stage |-> "sent"] \notin mutations
  /\ mutations' = mutations \cup
       {[id |-> id, status |-> status, stage |-> "sent"]}
  /\ lastResponse' = NoResponse
  /\ lastMutation' = Null
  /\ UNCHANGED <<storage, navPending, server, wagerCache, listCache>>
  /\ UNCHANGED <<authFrame, uiVars>>

\* The backend applies a status update; its 200 response is on the way.
ServerHandle(m) ==
  /\ m \in mutations
  /\ m.stage = "sent"
  /\ server' = [server EXCEPT ![m.id] = m.status]
  /\ mutations' = (mutations \ {m}) \cup {[m EXCEPT !.stage = "answered"]}
  /\ lastResponse' = NoResponse
  /\ lastMutation' = Null
  /\ UNCHANGED <<storage, navPending, wagerCache, listCache>>
  /\ UNCHANGED <<authFrame, uiVars>>

\* onSuccess that only invalidates the list and skips setQueryData.
onSuccessInvalidateOnly(wc, lc, data, variables) ==
  [wagerCache |-> wc,
   listCache |-> IF lc = Null THEN Null
                 ELSE Some([lc[1] EXCEPT !.stale = TRUE])]

\* onSuccess of useUpdateWagerStatus:
\*   setQueryData(['wager', id], data); invalidateQueries(['wagers'])
onSuccess(wc, lc, data, variables) ==
  [wagerCache |-> [wc EXCEPT ![variables.id] = Some(data)],
   listCache |-> IF lc = Null THEN Null
                 ELSE Some([lc[1] EXCEPT !.stale = TRUE])]

\* The 200 response of a status update reaches the client: the mutation
\* resolves and onSuccess runs.
UpdateStatusSettle(m) ==
  /\ m \in mutations
  /\ m.stage = "answered"
  /\ mutations' = mutations \ {m}
  /\ lastMutation' = Some(m)
  /\ LET c == onSuccess(wagerCache, listCache, Envelope(m.id, m.status), m)
     IN /\ wagerCache' = c.wagerCache
        /\ listCache' = c.listCache
  /\ lastResponse' = Resp("status", 200, "resolved")
  /\ UNCHANGED <<storage, navPending, server>>
  /\ UNCHANGED <<authFrame, uiVars>>

\* The backend refuses a status update and the error response reaches the
\* client: the response interceptor of the generic client runs, the
\* mutation rejects and onSuccess does not run.
UpdateStatusReject(m, code) ==
  /\ m \in mutations
  /\ m.stage = "sent"
  /\ code # 200
  /\ mutations' = mutations \ {m}
  /\ lastMutation' = Null
  /\ LET r == apiResponseInterceptor(storage, code)
     IN /\ storage' = r.storage
        /\ navPending' = IF r.nav THEN "api401" ELSE navPending
  /\ lastResponse' = Resp("status", code, "rejected")
  /\ UNCHANGED <<server, wagerCache, listCache>>
  /\ UNCHANGED <<authFrame, uiVars>>

\* A session restored on the Wagers page; every wager starts pending. The
\* 'authToken' key is absent: no code of the application writes it.
InitCache ==
  /\ \E ls \in InitialStorages :
       /\ ls.token = Some(Jwt(0))
       /\ ls.user = Some(Stringify(UserFor("alice")))
       /\ ls.refreshToken = Null
       /\ ls.authToken = Null
       /\ Loaded(ls, 0, "/wagers", "open")
  /\ CacheEmpty
  /\ server = [i \in Ids |-> "pending"]
  /\ UiIdle

NextCache ==
  \/ InitializeAuth
  \/ \E status \in Statuses : FetchWagers(status)
  \/ \E id \in Ids, status \in UpdateStatuses : UpdateStatusSend(id, status)
  \/ \E m \in mutations : ServerHandle(m)
  \/ \E m \in mutations : UpdateStatusSettle(m)
  \/ \E m \in mutations, code \in Statuses : UpdateStatusReject(m, code)
  \/ Reload

SpecCache == InitCache /\ [][NextCache]_vars

\* ------------------------------------------------------------- WagerList
\* The application before anything was stored or fetched.
AppIdle ==
  /\ Loaded([token |-> Null, refreshToken |-> Null, user |-> Null,
             authToken |-> Null], 0, "/wagers", "open")
  /\ CacheEmpty
  /\ server = [i \in Ids |-> "pending"]

\* The fields of a Wager the list and its cards decide on.
WagerRecs == [status : WagerStatuses, archived : BOOLEAN]
WagerLists == [Ids -> {Null} \cup {Some(w) : w \in WagerRecs}]
Displayed(ws) == {i \in Ids : ws[i] # Null}

\* wagers.map(w => w.id): the ids in array order (ascending id here).
RECURSIVE IdsInOrder(_)
IdsInOrder(S) ==
  IF S = {} THEN <<>>
  ELSE LET m == CHOOSE x \in S : \A y \in S : x <= y
       IN <<m>> \o IdsInOrder(S \ {m})

Range(sq) == {sq[k] : k \in 1..Len(sq)}
Without(sq, x) == SelectSeq(sq, LAMBDA y : y # x)

\* useState of a WagerCard: anchorEl and statusMenuAnchor, both null.
FreshCard == [anchorEl |-> FALSE, statusMenuAnchor |-> FALSE]

\* {!loading && wagers.length > 0 && (<Grid> ... cards ... </Grid>)}
GridShown(ws, ld) == ~ld /\ Displayed(ws) # {}

\* Cards are keyed by wager.id: a card that stays in the grid keeps its
\* state, a new one starts fresh, one that leaves the grid is unmounted.
Mount(cs, ws, ld) ==
  [i \in Ids |->
     IF GridShown(ws, ld) /\ ws[i] # Null
     THEN IF cs[i] # Null THEN cs[i] ELSE Some(FreshCard)
     ELSE Null]

hasSelection == Len(selectedWagers) > 0
allSelected ==
  /\ Displayed(wagers) # {}
  /\ Len(selectedWagers) = Cardinality(Displayed(wagers))

\* showActions passed to a card: {!hasSelection} with bulk actions, the
\* default (true) without.
showActions == IF showBulkActions THEN ~hasSelection ELSE TRUE

isActive(wager) == wager.status = "pending" /\ ~wager.archived

\* A Menu is a modal: while one is open its backdrop takes every click
\* outside it.
NoMenuOpen ==
  /\ ~bulkMenuAnchor
  /\ \A i \in Ids :
       cards[i] # Null => ~cards[i][1].anchorEl /\ ~cards[i][1].statusMenuAnchor

Call(fn, id, arg) == [fn |-> fn, id |-> id, arg |-> arg]

ListInit ==
  /\ AppIdle
  /\ FilterIdle
  /\ SocketIdle
  /\ CallIdle
  /\ ScriptIdle
  /\ \E ws \in WagerLists, ld \in BOOLEAN :
       /\ wagers = ws
       /\ loading = ld
       /\ cards = Mount([i \in Ids |-> Null], ws, ld)
  /\ showBulkActions \in BOOLEAN
  /\ onWagerEdit \in BOOLEAN
  /\ selectedWagers = <<>>
  /\ bulkMenuAnchor = FALSE
  /\ handlerCalls = <<>>

\* The parent renders the list again after its query delivered a change:
\* one wager changed, entered or left the list, or the loading flag flipped.
PropsChange(ws, ld) ==
  /\ <<ws, ld>> # <<wagers, loading>>
  /\ Cardinality({i \in Ids : ws[i] # wagers[i]}) + (IF ld # loading THEN 1 ELSE 0) = 1
  /\ wagers' = ws
  /\ loading' = ld
  /\ cards' = Mount(cards, ws, ld)
  /\ handlerCalls' = <<>>
  /\ UNCHANGED <<showBulkActions, onWagerEdit, selectedWagers,
                 bulkMenuAnchor>>
  /\ UNCHANGED listFrame

\* The "Select All" checkbox; a click hands over the opposite of what the
\* box shows (checked = allSelected).
handleSelectAll(checked) ==
  /\ showBulkActions
  /\ NoMenuOpen
  /\ checked = ~allSelected
  /\ selectedWagers' = IF checked THEN IdsInOrder(Displayed(wagers))
                       ELSE <<>>
  /\ handlerCalls' = <<>>
  /\ UNCHANGED <<wagers, loading, showBulkActions, onWagerEdit,
                 bulkMenuAnchor, cards>>
  /\ UNCHANGED listFrame

\* The checkbox next to a card of the grid.
handleSelectWager(wagerId, checked) ==
  /\ showBulkActions
  /\ GridShown(wagers, loading)
  /\ wagers[wagerId] # Null
  /\ NoMenuOpen
  /\ checked = (wagerId \notin Range(selectedWagers))
  /\ selectedWagers' =
       IF checked
       THEN IF wagerId \in Range(selectedWagers) THEN selectedWagers
            ELSE Append(selectedWagers, wagerId)
       ELSE Without(selectedWagers, wagerId)
  /\ handlerCalls' = <<>>
  /\ UNCHANGED <<wagers, loading, showBulkActions, onWagerEdit,
                 bulkMenuAnchor, cards>>
  /\ UNCHANGED listFrame

\* The "Bulk Actions" button, rendered when showBulkActions && hasSelection.
handleBulkMenuOpen ==
  /\ showBulkActions
  /\ hasSelection
  /\ NoMenuOpen
  /\ bulkMenuAnchor' = TRUE
  /\ handlerCalls' = <<>>
  /\ UNCHANGED <<wagers, loading, showBulkActions, onWagerEdit,
                 selectedWagers, cards>>
  /\ UNCHANGED listFrame

handleBulkMenuClose ==
  /\ bulkMenuAnchor
  /\ bulkMenuAnchor' = FALSE
  /\ handlerCalls' = <<>>
  /\ UNCHANGED <<wagers, loading, showBulkActions, onWagerEdit,
                 selectedWagers, cards>>
  /\ UNCHANGED listFrame

\* selectedWagers.forEach(id => handler(id, arg)); setSelectedWagers(new
\* Set()); handleBulkMenuClose()
BulkApply(fn, arg) ==
  /\ bulkMenuAnchor
  /\ handlerCalls' = [k \in 1..Len(selectedWagers) |->
                        Call(fn, selectedWagers[k], arg)]
  /\ selectedWagers' = <<>>
  /\ bulkMenuAnchor' = FALSE
  /\ UNCHANGED <<wagers, loading, showBulkActions, onWagerEdit, cards>>
  /\ UNCHANGED listFrame

\* handleBulkStatusUpdate that leaves the selection as it was.
handleBulkStatusUpdateKeepSelection(status) ==
  /\ bulkMenuAnchor
  /\ handlerCalls' = [k \in 1..Len(selectedWagers) |->
                        Call("onWagerStatusUpdate", selectedWagers[k], status)]
  /\ bulkMenuAnchor' = FALSE
  /\ UNCHANGED <<wagers, loading, showBulkActions, onWagerEdit, cards,
                 selectedWagers>>
  /\ UNCHANGED listFrame

handleBulkStatusUpdate(status) == BulkApply("onWagerStatusUpdate", status)
handleBulkArchive(archived) == BulkApply("onWagerArchive", archived)
handleBulkDelete == BulkApply("onWagerDelete", Null)

\* ------------------------------------------------------------- WagerCard
\* WagerCard that offers its overflow menu button on active wagers only.
WagerCardActiveOnly(wager, onEdit, showActs, st) ==
  [menuButton    |-> isActive(wager) /\ showActs,
   statusButton  |-> isActive(wager) /\ showActs,
   actionsMenu   |-> st.anchorEl,
   editItem      |-> st.anchorEl /\ onEdit,
   statusMenu    |-> st.statusMenuAnchor]

\* What a WagerCard renders for its props and state.
WagerCard(wager, onEdit, showActs, st) ==
  [menuButton    |-> showActs,
   statusButton  |-> isActive(wager) /\ showActs,
   actionsMenu   |-> st.anchorEl,
   editItem      |-> st.anchorEl /\ onEdit,
   statusMenu    |-> st.statusMenuAnchor]

\* The view of the mounted card of wager id.
CardView(id) ==
  WagerCard(wagers[id][1], onWagerEdit, showActions, cards[id][1])

SetCard(id, st) ==
  /\ cards' = [cards EXCEPT ![id] = Some(st)]
  /\ UNCHANGED <<wagers, loading, showBulkActions, onWagerEdit,
                 selectedWagers, bulkMenuAnchor>>
  /\ UNCHANGED listFrame

\* The "Wager actions" icon button.
handleMenuOpen(id) ==
  /\ cards[id] # Null
  /\ CardView(id).menuButton
  /\ NoMenuOpen
  /\ SetCard(id, [cards[id][1] EXCEPT !.anchorEl = TRUE])
  /\ handlerCalls' = <<>>

handleMenuClose(id) ==
  /\ cards[id] # Null
  /\ CardView(id).actionsMenu
  /\ SetCard(id, [cards[id][1] EXCEPT !.anchorEl = FALSE])
  /\ handlerCalls' = <<>>

\* The "Update Status" button.
handleStatusMenuOpen(id) ==
  /\ cards[id] # Null
  /\ CardView(id).statusButton
  /\ NoMenuOpen
  /\ SetCard(id, [cards[id][1] EXCEPT !.statusMenuAnchor = TRUE])
  /\ handlerCalls' = <<>>

handleStatusMenuClose(id) ==
  /\ cards[id] # Null
  /\ CardView(id).statusMenu
  /\ SetCard(id, [cards[id][1] EXCEPT !.statusMenuAnchor = FALSE])
  /\ handlerCalls' = <<>>

\* An item of the status menu: onStatusUpdate(wager.id, status), then
\* handleStatusMenuClose().
handleStatusUpdate(id, status) ==
  /\ cards[id] # Null
  /\ CardView(id).statusMenu
  /\ handlerCalls' = <<Call("onWagerStatusUpdate", id, status)>>
  /\ SetCard(id, [cards[id][1] EXCEPT !.statusMenuAnchor = FALSE])

\* Items of the actions menu.
handleArchive(id) ==
  /\ cards[id] # Null
  /\ CardView(id).actionsMenu
  /\ handlerCalls' =
       <<Call("onWagerArchive", id, ~wagers[id][1].archived)>>
  /\ SetCard(id, [cards[id][1] EXCEPT !.anchorEl = FALSE])

handleDelete(id) ==
  /\ cards[id] # Null
  /\ CardView(id).actionsMenu
  /\ handlerCalls' = <<Call("onWagerDelete", id, Null)>>
  /\ SetCard(id, [cards[id][1] EXCEPT !.anchorEl = FALSE])

handleEdit(id) ==
  /\ cards[id] # Null
  /\ CardView(id).editItem
  /\ handlerCalls' = <<Call("onWagerEdit", id, Null)>>
  /\ SetCard(id, [cards[id][1] EXCEPT !.anchorEl = FALSE])

\* ----------------------------------------------------------- WagerDetail
\* What a WagerDetail renders: its status buttons exist when isActive.
WagerDetail(wager) == [statusButtons |-> isActive(wager)]

\* A status button of a WagerDetail opened on a wager of the list.
detailHandleStatusUpdate(id, status) ==
  /\ wagers[id] # Null
  /\ WagerDetail(wagers[id][1]).statusButtons
  /\ NoMenuOpen
  /\ handlerCalls' = <<Call("detail.onStatusUpdate", id, status)>>
  /\ UNCHANGED <<wagers, loading, showBulkActions, onWagerEdit,
                 selectedWagers, bulkMenuAnchor, cards>>
  /\ UNCHANGED listFrame

NextList ==
  \/ \E ws \in WagerLists, ld \in BOOLEAN : PropsChange(ws, ld)
  \/ \E checked \in BOOLEAN : handleSelectAll(checked)
  \/ \E id \in Ids, checked \in BOOLEAN : handleSelectWager(id, checked)
  \/ handleBulkMenuOpen
  \/ handleBulkMenuClose
  \/ \E status \in UpdateStatuses : handleBulkStatusUpdate(status)
  \/ \E archived \in BOOLEAN : handleBulkArchive(archived)
  \/ handleBulkDelete
  \/ \E id \in Ids : handleMenuOpen(id)
  \/ \E id \in Ids : handleMenuClose(id)
  \/ \E id \in Ids : handleStatusMenuOpen(id)
  \/ \E id \in Ids : handleStatusMenuClose(id)
  \/ \E id \in Ids, status \in WagerStatuses : handleStatusUpdate(id, status)
  \/ \E id \in Ids : handleArchive(id)
  \/ \E id \in Ids : handleDelete(id)
  \/ \E id \in Ids : handleEdit(id)
  \/ \E id \in Ids, status \in UpdateStatuses :
       detailHandleStatusUpdate(id, status)

SpecList == ListInit /\ [][NextList]_vars

\* ------------------------------------------------- filter panel and page
\* Statuses offered by the chips of the filter panel.
FilterStatuses == {"pending", "won"}
pageSize == 12

\* Text is a sequence of tokens; a number prints as one token.
NumText(n) == <<ToString(n)>>
BoolText(b) == IF b THEN <<"true">> ELSE <<"false">>

\* Array.prototype.join(',')
RECURSIVE Join(_)
Join(arr) ==
  IF Len(arr) = 0 THEN <<>>
  ELSE IF Len(arr) = 1 THEN <<arr[1]>>
  ELSE <<arr[1], ",">> \o Join(Tail(arr))

\* URLSearchParams.toString() percent-encodes a comma; the receiver of the
\* query string decodes it.
EncodeText(text) ==
  [k \in 1..Len(text) |-> IF text[k] = "," THEN "%2C" ELSE text[k]]
DecodeText(text) ==
  [k \in 1..Len(text) |-> IF text[k] = "%2C" THEN "," ELSE text[k]]

Param(name, text) == [name |-> name, value |-> EncodeText(text)]

\* getWagers that sends archived only when it is true.
getWagersTruthyArchived(params) ==
  (IF params.page # 0 THEN <<Param("page", NumText(params.page))>>
   ELSE <<>>)
  \o (IF params.pageSize # 0
      THEN <<Param("pageSize", NumText(params.pageSize))>> ELSE <<>>)
  \o (IF Len(params.status) > 0
      THEN <<Param("status", Join(params.status))>> ELSE <<>>)
  \o (IF params.archived # Null /\ params.archived[1]
      THEN <<Param("archived", BoolText(params.archived[1]))>> ELSE <<>>)
  \o (IF params.search # Null /\ params.search[1] # ""
      THEN <<Param("search", <<params.search[1]>>)>> ELSE <<>>)
  \o (IF params.sortBy # Null
      THEN <<Param("sortBy", <<params.sortBy[1]>>)>> ELSE <<>>)

\* wagerService.getWagers: the query string it builds, as the sequence of
\* its name=value pairs.
getWagers(params) ==
  (IF params.page # 0 THEN <<Param("page", NumText(params.page))>>
   ELSE <<>>)
  \o (IF params.pageSize # 0
      THEN <<Param("pageSize", NumText(params.pageSize))>> ELSE <<>>)
  \o (IF Len(params.status) > 0
      THEN <<Param("status", Join(params.status))>> ELSE <<>>)
  \o (IF params.archived # Null
      THEN <<Param("archived", BoolText(params.archived[1]))>> ELSE <<>>)
  \o (IF params.search # Null /\ params.search[1] # ""
      THEN <<Param("search", <<params.search[1]>>)>> ELSE <<>>)
  \o (IF params.sortBy # Null
      THEN <<Param("sortBy", <<params.sortBy[1]>>)>> ELSE <<>>)

\* useWagers({...filters, page: currentPage, pageSize}): the request the
\* list query makes for a filter set and page.
useWagers(f, page) ==
  getWagers([status |-> f.status, archived |-> f.archived,
             search |-> f.search, sortBy |-> f.sortBy,
             page |-> page, pageSize |-> pageSize])

\* value={filters.search || ''} passed to the SearchInput.
TextOf(search) == IF search = Null THEN "" ELSE search[1]

\* The SearchInput as mounted, and nothing entered or applied yet.
FreshSearchInput == [localValue |-> "", timer |-> Null]
NoSearchLog ==
  [typed |-> Null, applied |-> Null, delivered |-> Null, cleared |-> FALSE]

\* The fields of a filter set the filter panel edits.
PanelFields(f) ==
  [status |-> f.status, archived |-> f.archived, sortBy |-> f.sortBy]

\* The Wagers page mounts with its initial filter set on page 1 and the
\* list query makes its first request.
FilterInit ==
  /\ AppIdle
  /\ ListIdle
  /\ SocketIdle
  /\ CallIdle
  /\ ScriptIdle
  /\ filters = InitialFilters
  /\ currentPage = 1
  /\ showFilters = FALSE
  /\ localFilters = Null
  /\ lastRequest = useWagers(InitialFilters, 1)
  /\ filterEvent = "mount"
  /\ searchInput = FreshSearchInput
  /\ searchLog = NoSearchLog

\* handleFiltersChange of the Wagers page: setFilters(newFilters);
\* setCurrentPage(1). The list query then requests the new parameters, and
\* the effect of the SearchInput (si: its state in this step) copies a
\* changed `value` prop into localValue.
handleFiltersChange(newFilters, si) ==
  /\ filters' = newFilters
  /\ currentPage' = 1
  /\ lastRequest' = useWagers(newFilters, 1)
  /\ searchInput' =
       IF TextOf(newFilters.search) # TextOf(filters.search)
       THEN [si EXCEPT !.localValue = TextOf(newFilters.search)]
       ELSE si

\* handlePageChange of the Wagers page.
handlePageChange(page) ==
  /\ page # currentPage
  /\ currentPage' = page
  /\ lastRequest' = useWagers(filters, page)
  /\ filterEvent' = "page"
  /\ UNCHANGED <<filters, showFilters, localFilters, searchInput, searchLog>>
  /\ UNCHANGED filterFrame

\* handleSearchChange of the WagerList render whose `filters` prop was f:
\* onFiltersChange({...filters, search})
handleSearchChange(f, search, si) ==
  /\ handleFiltersChange([f EXCEPT !.search = Some(search)], si)
  /\ filterEvent' = "search"
  /\ UNCHANGED <<showFilters, localFilters>>
  /\ UNCHANGED filterFrame

\* Text typed into the search box whose debounced callback runs before
\* anything else happens.
SearchTyped(text) ==
  /\ searchInput.timer = Null
  /\ handleSearchChange(filters, text,
                        [searchInput EXCEPT !.localValue = text])
  /\ searchLog' = [searchLog EXCEPT !.typed = Some(text),
                                    !.delivered = Some(text),
                                    !.cleared = FALSE]

\* SearchInput.handleChange(newValue): setLocalValue; clearTimeout of the
\* pending timer; setTimeout(() => onChange(newValue), debounceMs). The
\* callback holds the onChange of this render, which holds its `filters`.
handleChange(newValue) ==
  /\ newValue # searchInput.localValue
  /\ searchInput' = [localValue |-> newValue,
                     timer |-> Some([value |-> newValue, filters |-> filters])]
  /\ searchLog' = [searchLog EXCEPT !.typed = Some(newValue),
                                    !.cleared = FALSE]
  /\ filterEvent' = "type"
  /\ UNCHANGED <<filters, currentPage, showFilters, localFilters,
                 lastRequest>>
  /\ UNCHANGED filterFrame

\* The debounce timer fires: onChange(newValue) of the render that set it.
DebounceFires ==
  /\ searchInput.timer # Null
  /\ LET t == searchInput.timer[1]
     IN handleSearchChange(t.filters, t.value,
                           [searchInput EXCEPT !.timer = Null])
  /\ searchLog' = [searchLog EXCEPT
       !.delivered = Some(searchInput.timer[1].value)]

\* SearchInput.handleClear: setLocalValue(''); onChange(''). The button is
\* rendered while localValue is not empty; a pending timer stays set.
handleClear ==
  /\ searchInput.localValue # ""
  /\ handleSearchChange(filters, "",
                        [searchInput EXCEPT !.localValue = ""])
  /\ searchLog' = [searchLog EXCEPT !.typed = Some(""),
                                    !.delivered = Some(""),
                                    !.cleared = TRUE]

\* The "Filters" button: setShowFilters(!showFilters). A panel that is
\* shown mounts with useState(filters); one that is hidden loses its draft.
ToggleFilters ==
  /\ showFilters' = ~showFilters
  /\ localFilters' = IF showFilters THEN Null ELSE Some(filters)
  /\ filterEvent' = "toggle"
  /\ UNCHANGED <<filters, currentPage, lastRequest, searchInput, searchLog>>
  /\ UNCHANGED filterFrame

\* An edit of the draft: setLocalFilters(...)
EditDraft(draft) ==
  /\ showFilters
  /\ localFilters' = Some(draft)
  /\ filterEvent' = "edit"
  /\ UNCHANGED <<filters, currentPage, showFilters, lastRequest,
                 searchInput, searchLog>>
  /\ UNCHANGED filterFrame

\* A status chip: the status is removed from the draft's array when it is
\* in it and appended otherwise.
handleStatusChange(status) ==
  /\ showFilters
  /\ LET currentStatuses == localFilters[1].status
         newStatuses == IF status \in Range(currentStatuses)
                        THEN Without(currentStatuses, status)
                        ELSE Append(currentStatuses, status)
     IN EditDraft([localFilters[1] EXCEPT !.status = newStatuses])

handleArchivedChange(archived) ==
  /\ showFilters
  /\ EditDraft([localFilters[1] EXCEPT !.archived = archived])

handleSortChange(value) ==
  /\ showFilters
  /\ EditDraft([localFilters[1] EXCEPT !.sortBy = value])

\* "Apply": onFiltersChange(localFilters); onClose()
handleApplyFilters ==
  /\ showFilters
  /\ handleFiltersChange(localFilters[1], searchInput)
  /\ showFilters' = FALSE
  /\ localFilters' = Null
  /\ filterEvent' = "apply"
  /\ searchLog' = [searchLog EXCEPT
       !.applied = Some(PanelFields(localFilters[1]))]
  /\ UNCHANGED filterFrame

\* "Clear All": the draft and the applied filter set both become {}.
handleClearFilters ==
  /\ showFilters
  /\ localFilters' = Some(NoFilters)
  /\ handleFiltersChange(NoFilters, searchInput)
  /\ filterEvent' = "clear"
  /\ searchLog' = [searchLog EXCEPT !.applied = Some(PanelFields(NoFilters))]
  /\ UNCHANGED showFilters
  /\ UNCHANGED filterFrame

\* Texts entered into the search box.
SearchTexts == {"", "text"}

NextFilters ==
  \/ \E page \in 1..MaxPage : handlePageChange(page)
  \/ \E text \in SearchTexts : SearchTyped(text)
  \/ ToggleFilters
  \/ \E status \in FilterStatuses : handleStatusChange(status)
  \/ \E archived \in {Null, Some(TRUE), Some(FALSE)} :
       handleArchivedChange(archived)
  \/ \E value \in {Null, Some("createdAt")} : handleSortChange(value)
  \/ handleApplyFilters
  \/ handleClearFilters

SpecFilters == FilterInit /\ [][NextFilters]_vars

\* The search box with its debounce timer, next to the archived control,
\* Apply and Clear All of the filter panel.
NextSearch ==
  \/ \E newValue \in SearchTexts : handleChange(newValue)
  \/ DebounceFires
  \/ handleClear
  \/ ToggleFilters
  \/ \E archived \in {Null, Some(TRUE), Some(FALSE)} :
       handleArchivedChange(archived)
  \/ handleApplyFilters
  \/ handleClearFilters

SpecSearch == FilterInit /\ [][NextSearch]_vars

\* --------------------------------------------------------- SocketService
maxReconnectAttempts == 5

\* this.socket?.connected
socketConnected ==
  IF socket = Null THEN FALSE ELSE sockets[socket[1]] = "connected"

\* attemptReconnect: below the limit, count the attempt and set a timer
\* that will call this.socket?.connect().
attemptReconnect(attempts, pending) ==
  IF attempts < maxReconnectAttempts
  THEN [reconnectAttempts |-> attempts + 1, timers |-> pending + 1]
  ELSE [reconnectAttempts |-> attempts, timers |-> pending]

\* connect(token): return the held socket when it is connected; otherwise
\* make a new one with io(), keep it in this.socket and attach the three
\* listeners to it.
connect ==
  /\ socketEvent' = "connect()"
  /\ IF socketConnected
     THEN UNCHANGED <<sockets, socket>>
     ELSE /\ Len(sockets) < MaxSockets
          /\ sockets' = Append(sockets, "connecting")
          /\ socket' = Some(Len(sockets) + 1)
  /\ UNCHANGED <<reconnectAttempts, timers, reconnectsMade>>
  /\ UNCHANGED socketFrame

\* disconnect(): this.socket.disconnect(); this.socket = null. Closing a
\* connected socket emits 'disconnect' with reason 'io client disconnect'
\* to its listener before the field is cleared.
disconnect ==
  /\ socket # Null
  /\ socketEvent' = "disconnect()"
  /\ sockets' = [sockets EXCEPT ![socket[1]] = "closed"]
  /\ socket' = Null
  /\ LET r == IF socketConnected
              THEN attemptReconnect(reconnectAttempts, timers)
              ELSE [reconnectAttempts |-> reconnectAttempts,
                    timers |-> timers]
     IN /\ reconnectAttempts' = r.reconnectAttempts
        /\ timers' = r.timers
  /\ UNCHANGED reconnectsMade
  /\ UNCHANGED socketFrame

\* Listener of 'connect' on socket i.
onConnect(i) ==
  /\ sockets[i] = "connecting"
  /\ sockets' = [sockets EXCEPT ![i] = "connected"]
  /\ reconnectAttempts' = 0
  /\ reconnectsMade' = 0
  /\ socketEvent' = "connect"
  /\ UNCHANGED <<socket, timers>>
  /\ UNCHANGED socketFrame

\* Listener of 'disconnect' on socket i, for a disconnect the client did
\* not ask for: reason 'io server disconnect' or another one.
onDisconnect(i, reason) ==
  /\ sockets[i] = "connected"
  /\ sockets' = [sockets EXCEPT ![i] = "closed"]
  /\ socketEvent' = reason
  /\ LET r == IF reason = "io server disconnect"
              THEN [reconnectAttempts |-> reconnectAttempts,
                    timers |-> timers]
              ELSE attemptReconnect(reconnectAttempts, timers)
     IN /\ reconnectAttempts' = r.reconnectAttempts
        /\ timers' = r.timers
  /\ UNCHANGED <<socket, reconnectsMade>>
  /\ UNCHANGED socketFrame

\* Listener of 'connect_error' on socket i.
onConnectError(i) ==
  /\ sockets[i] = "connecting"
  /\ sockets' = [sockets EXCEPT ![i] = "closed"]
  /\ socketEvent' = "connect_error"
  /\ LET r == attemptReconnect(reconnectAttempts, timers)
     IN /\ reconnectAttempts' = r.reconnectAttempts
        /\ timers' = r.timers
  /\ UNCHANGED <<socket, reconnectsMade>>
  /\ UNCHANGED socketFrame

\* A timer of attemptReconnect fires: this.socket?.connect(). A socket
\* that is closed starts connecting again.
TimerFires ==
  /\ timers > 0
  /\ timers' = timers - 1
  /\ socketEvent' = "timer"
  /\ IF socket # Null /\ sockets[socket[1]] = "closed"
     THEN /\ sockets' = [sockets EXCEPT ![socket[1]] = "connecting"]
          /\ reconnectsMade' = reconnectsMade + 1
     ELSE UNCHANGED <<sockets, reconnectsMade>>
  /\ UNCHANGED <<socket, reconnectAttempts>>
  /\ UNCHANGED socketFrame

DisconnectReasons == {"io server disconnect", "transport close"}

SocketInit ==
  AppIdle /\ ListIdle /\ FilterIdle /\ SocketIdle /\ CallIdle /\ ScriptIdle

NextSocket ==
  \/ connect
  \/ disconnect
  \/ \E i \in 1..Len(sockets) : onConnect(i)
  \/ \E i \in 1..Len(sockets), reason \in DisconnectReasons :
       onDisconnect(i, reason)
  \/ \E i \in 1..Len(sockets) : onConnectError(i)
  \/ TimerFires

SpecSocket == SocketInit /\ [][NextSocket]_vars

\* ----------------------------------------------- wager service, apiClient
\* An axios call: method, url and request body (Null when none is given).
HttpReq(method, url, body) == [method |-> method, url |-> url, body |-> body]

\* apiClient.delete: <T>(url) => api.delete(url). It has one parameter: a
\* second argument of a call is dropped.
apiClientDelete(url, config) == HttpReq("DELETE", url, Null)

\* apiClient.patch: (url, data) => api.patch(url, data)
apiClientPatch(url, data) == HttpReq("PATCH", url, Some(data))

\* wagerService.bulkDelete(ids)
bulkDelete(ids) ==
  apiClientDelete(<<"/wagers", "/bulk">>, [data |-> [ids |-> ids]])

\* wagerService.bulkUpdateStatus(ids, status)
bulkUpdateStatus(ids, status) ==
  apiClientPatch(<<"/wagers", "/bulk/status">>,
                 [ids |-> ids, status |-> status])

\* wagerService.deleteWager(id)
deleteWager(id) == apiClientDelete(<<"/wagers", "/", ToString(id)>>, Null)

\* Arrays of distinct wager ids.
IdLists ==
  {sq \in UNION {[1..n -> Ids] : n \in 0..MaxWagers} :
     \A j, k \in 1..Len(sq) : j # k => sq[j] # sq[k]}

\* -------------------------------------------------------- calculatePayout
\* Characters of a line: sign characters, digits and one letter.
LineChars == {"+", "-", "0", "1", "5", "x"}
Digits == {"0", "1", "5"}
DigitValue(c) == IF c = "0" THEN 0 ELSE IF c = "1" THEN 1 ELSE 5
Lines == UNION {[1..n -> LineChars] : n \in 0..MaxLineLen}
Amounts == {0, 10}

\* JavaScript numbers: NaN, +/-Infinity, or the finite value n / d.
NaN == [kind |-> "nan", n |-> 0, d |-> 1]
Infinity(sign) == [kind |-> "inf", n |-> sign, d |-> 1]
Num(n, d) == [kind |-> "num", n |-> n, d |-> d]

\* line.replace(/[^-\d.]/g, ''): keep minus signs and digits.
CleanLine(line) == SelectSeq(line, LAMBDA c : c \in Digits \cup {"-"})

\* The longest prefix of digits.
RECURSIVE DigitPrefix(_)
DigitPrefix(text) ==
  IF Len(text) = 0 \/ Head(text) \notin Digits THEN <<>>
  ELSE <<Head(text)>> \o DigitPrefix(Tail(text))

RECURSIVE DecimalValue(_)
DecimalValue(ds) ==
  IF Len(ds) = 0 THEN 0
  ELSE 10 * DecimalValue(SubSeq(ds, 1, Len(ds) - 1)) + DigitValue(ds[Len(ds)])

\* parseFloat: an optional sign, then digits up to the first other
\* character; NaN when no digit follows the sign.
parseFloat(text) ==
  LET neg == Len(text) > 0 /\ Head(text) = "-"
      ds == DigitPrefix(IF neg THEN Tail(text) ELSE text)
  IN IF ds = <<>> THEN NaN
     ELSE Num((IF neg THEN -1 ELSE 1) * DecimalValue(ds), 1)

\* a / b and a * b of JavaScript for the operands that occur here.
Divide(a, b) ==
  IF b = 0 THEN (IF a = 0 THEN NaN ELSE Infinity(IF a > 0 THEN 1 ELSE -1))
  ELSE Num(a, b)
Times(x, amount) ==
  IF x.kind = "nan" THEN NaN
  ELSE IF x.kind = "inf"
       THEN (IF amount = 0 THEN NaN
             ELSE Infinity(IF amount > 0 THEN x.n ELSE -x.n))
       ELSE Num(x.n * amount, x.d)

Abs(v) == IF v < 0 THEN -v ELSE v

\* calculatePayout(amount, line): null for a line without a number.
calculatePayout(amount, line) ==
  LET odds == parseFloat(CleanLine(line))
  IN IF odds.kind = "nan" THEN Null
     ELSE IF odds.n > 0 THEN Some(Times(Divide(odds.n, 100), amount))
     ELSE Some(Times(Divide(100, Abs(odds.n)), amount))

\* {potentialPayout && (...)}: the payout box is rendered for a truthy
\* value; null, NaN and 0 are falsy.
Truthy(v) ==
  /\ v # Null
  /\ v[1].kind # "nan"
  /\ ~(v[1].kind = "num" /\ v[1].n = 0)

\* The payout part of a WagerCard or WagerDetail.
PayoutView(amount, line) ==
  LET potentialPayout == calculatePayout(amount, line)
  IN [payout |-> potentialPayout, shown |-> Truthy(potentialPayout)]

\* ------------------------------------------- calls of services and utils
\* One call of a service or utility function: its name and arguments
\* (arguments a function does not take hold a fixed filler).
Invoke(fn, ids, status, token, time, amount, line) ==
  [fn |-> fn, ids |-> ids, status |-> status, token |-> token,
   time |-> time, amount |-> amount, line |-> line]

CallTokens == {Jwt(e) : e \in 0..(MaxTime + TokenTTL)}
                \cup {GarbageToken, NoExpToken}

Calls ==
  {Invoke("bulkDelete", ids, "pending", GarbageToken, 0, 0, <<>>) :
     ids \in IdLists}
  \cup {Invoke("bulkUpdateStatus", ids, st, GarbageToken, 0, 0, <<>>) :
          ids \in IdLists, st \in WagerStatuses}
  \cup {Invoke("deleteWager", <<i>>, "pending", GarbageToken, 0, 0, <<>>) :
          i \in Ids}
  \cup {Invoke("isTokenExpired", <<>>, "pending", tk, t, 0, <<>>) :
          tk \in CallTokens, t \in 0..MaxTime}
  \cup {Invoke("calculatePayout", <<>>, "pending", GarbageToken, 0, a, ln) :
          a \in Amounts, ln \in Lines}

CallInit ==
  /\ AppIdle
  /\ ListIdle
  /\ FilterIdle
  /\ SocketIdle
  /\ ScriptIdle
  /\ call \in {Some(c) : c \in Calls}
  /\ outcome = Null

Pending(fn) == call # Null /\ call[1].fn = fn /\ outcome = Null
Returned(fn) == call # Null /\ call[1].fn = fn /\ outcome # Null

RunBulkDelete ==
  /\ Pending("bulkDelete")
  /\ outcome' = Some(bulkDelete(call[1].ids))
  /\ UNCHANGED <<call, callFrame>>

RunBulkUpdateStatus ==
  /\ Pending("bulkUpdateStatus")
  /\ outcome' = Some(bulkUpdateStatus(call[1].ids, call[1].status))
  /\ UNCHANGED <<call, callFrame>>

RunDeleteWager ==
  /\ Pending("deleteWager")
  /\ outcome' = Some(deleteWager(call[1].ids[1]))
  /\ UNCHANGED <<call, callFrame>>

RunIsTokenExpired ==
  /\ Pending("isTokenExpired")
  /\ outcome' = Some(isTokenExpired(call[1].token, call[1].time))
  /\ UNCHANGED <<call, callFrame>>

RunCalculatePayout ==
  /\ Pending("calculatePayout")
  /\ outcome' = Some(PayoutView(call[1].amount, call[1].line))
  /\ UNCHANGED <<call, callFrame>>

NextCalls ==
  \/ RunBulkDelete
  \/ RunBulkUpdateStatus
  \/ RunDeleteWager
  \/ RunIsTokenExpired
  \/ RunCalculatePayout

SpecCalls == CallInit /\ [][NextCalls]_vars

\* ------------------------------------------------------ scripts/ci_smoke
\* if [[ $attempt -ge 30 ]] and sleep 2
MaxAttempts == 30
SleepSeconds == 2

\* The run right after `trap cleanup EXIT`: nothing started, no poll made.
SmokeStart ==
  [pc |-> "compile", attempt |-> 0, polls |-> 0, slept |-> 0,
   stack |-> "none", healthy |-> FALSE, exit |-> Null, teardowns |-> 0]

\* A shell whose exit does not run the EXIT trap.
exitSmokeNoTrap(s, code) == [s EXCEPT !.pc = "exited", !.exit = Some(code)]

\* The shell exits with `code` (exit, set -e, or the end of the script):
\* the EXIT trap runs before the process ends.
exitSmoke(s, code) == [s EXCEPT !.pc = "trap", !.exit = Some(code)]

SmokeStep(s) ==
  /\ smoke' = s
  /\ UNCHANGED <<preview, dispatched, fetch, scriptFrame>>

\* python3 -m compileall bot web/app; set -e ends the script on failure.
SmokeCompile(ok) ==
  /\ smoke # Null /\ smoke[1].pc = "compile"
  /\ SmokeStep(Some(IF ok THEN [smoke[1] EXCEPT !.pc = "compose"]
                    ELSE exitSmoke(smoke[1], 1)))

\* docker compose up -d --build; a failed start may leave containers.
SmokeComposeUp(ok, left) ==
  /\ smoke # Null /\ smoke[1].pc = "compose"
  /\ ok => left = "up"
  /\ SmokeStep(Some(IF ok THEN [smoke[1] EXCEPT !.pc = "poll", !.stack = "up"]
                    ELSE exitSmoke([smoke[1] EXCEPT !.stack = left], 1)))

\* One evaluation of `until curl -fsS .../health`: on success the loop
\* ends, the script prints the answer and ends with status 0; on failure
\* the body counts the attempt and gives up at MaxAttempts.
SmokePoll(ok) ==
  /\ smoke # Null /\ smoke[1].pc = "poll"
  /\ LET s == [smoke[1] EXCEPT !.polls = @ + 1]
         attempt == s.attempt + 1
     IN SmokeStep(Some(
          IF ok THEN exitSmoke([s EXCEPT !.healthy = TRUE], 0)
          ELSE IF attempt >= MaxAttempts
               THEN exitSmoke([s EXCEPT !.attempt = attempt], 1)
               ELSE [s EXCEPT !.attempt = attempt, !.pc = "sleep"]))

SmokeSleep ==
  /\ smoke # Null /\ smoke[1].pc = "sleep"
  /\ SmokeStep(Some([smoke[1] EXCEPT !.slept = @ + SleepSeconds,
                                     !.pc = "poll"]))

\* cleanup(): docker compose down --volumes --remove-orphans || true
cleanup ==
  /\ smoke # Null /\ smoke[1].pc = "trap"
  /\ SmokeStep(Some([smoke[1] EXCEPT !.stack = "none",
                                     !.teardowns = @ + 1,
                                     !.pc = "exited"]))

\* ------------------------------------------------- preview setup/cleanup
\* for _ in {1..30} of the preview setup script
TunnelPolls == 30

\* A run of the setup script; branch: PREVIEW_BRANCH is set.
PreviewStart(branch) ==
  [pc |-> IF branch THEN "compose" ELSE "exited",
   exit |-> IF branch THEN Null ELSE Some(1),
   stack |-> "none", tunnel |-> "none", polls |-> 0, url |-> FALSE,
   stateFile |-> FALSE, cleaned |-> Null]

PreviewStep(s) ==
  /\ preview' = s
  /\ UNCHANGED <<smoke, dispatched, fetch, scriptFrame>>

exitPreview(s, code) == [s EXCEPT !.pc = "exited", !.exit = Some(code)]

\* docker compose down ... || true; docker compose up -d --build
PreviewComposeUp(ok, left) ==
  /\ preview # Null /\ preview[1].pc = "compose"
  /\ ok => left = "up"
  /\ PreviewStep(Some(
       IF ok THEN [preview[1] EXCEPT !.pc = "tunnel", !.stack = "up"]
       ELSE exitPreview([preview[1] EXCEPT !.stack = left], 1)))

\* nohup cloudflared tunnel ... &: the process is launched in the
\* background; it may end at once (alive = FALSE).
PreviewStartTunnel(alive) ==
  /\ preview # Null /\ preview[1].pc = "tunnel"
  /\ PreviewStep(Some([preview[1] EXCEPT
       !.pc = "poll",
       !.tunnel = IF alive THEN "running" ELSE "ended"]))

\* One pass of the loop over the log: a URL in the log ends the loop,
\* otherwise sleep 1; after TunnelPolls passes the loop ends without URL.
PreviewPoll(found) ==
  /\ preview # Null /\ preview[1].pc = "poll"
  /\ found => preview[1].tunnel = "running"
  /\ LET s == [preview[1] EXCEPT !.polls = @ + 1]
     IN PreviewStep(Some(
          IF found THEN [s EXCEPT !.url = TRUE, !.pc = "check"]
          ELSE IF s.polls >= TunnelPolls THEN [s EXCEPT !.pc = "check"]
          ELSE s))

\* if [[ -z "$TUNNEL_URL" ]]; then exit 1; else the state file is written
\* and the script ends with status 0.
PreviewFinish ==
  /\ preview # Null /\ preview[1].pc = "check"
  /\ PreviewStep(Some(
       IF ~preview[1].url THEN exitPreview(preview[1], 1)
       ELSE exitPreview([preview[1] EXCEPT !.stateFile = TRUE], 0)))

\* preview_cleanup.sh "$STATE_FILE": without the file it exits 1 and
\* touches nothing; with it, it takes the project down, kills the tunnel
\* process and removes the file.
preview_cleanup ==
  /\ preview # Null /\ preview[1].pc = "exited"
  /\ preview[1].cleaned = Null
  /\ PreviewStep(Some(
       IF ~preview[1].stateFile THEN [preview[1] EXCEPT !.cleaned = Some(1)]
       ELSE [preview[1] EXCEPT !.stack = "none", !.tunnel = "none",
                               !.stateFile = FALSE, !.cleaned = Some(0)]))

ScriptInit ==
  /\ AppIdle /\ ListIdle /\ FilterIdle /\ SocketIdle /\ CallIdle
  /\ smoke = Some(SmokeStart)
  /\ dispatched = <<>>
  /\ fetch = Null
  /\ preview \in {Some(PreviewStart(b)) : b \in BOOLEAN}

StackLeft == {"none", "up"}

NextScripts ==
  \/ \E ok \in BOOLEAN : SmokeCompile(ok)
  \/ \E ok \in BOOLEAN, left \in StackLeft : SmokeComposeUp(ok, left)
  \/ \E ok \in BOOLEAN : SmokePoll(ok)
  \/ SmokeSleep
  \/ cleanup
  \/ \E ok \in BOOLEAN, left \in StackLeft : PreviewComposeUp(ok, left)
  \/ \E alive \in BOOLEAN : PreviewStartTunnel(alive)
  \/ \E found \in BOOLEAN : PreviewPoll(found)
  \/ PreviewFinish
  \/ preview_cleanup

SpecScripts == ScriptInit /\ [][NextScripts]_vars

\* ------------------------------------------------- authReducer on its own
\* Every action the AuthAction type admits.
AuthActions ==
  {Act("LOGIN_START", Null), Act("LOGOUT", Null),
   Act("REFRESH_TOKEN_FAILURE", Null), Act("CLEAR_ERROR", Null)}
  \cup {Act("LOGIN_SUCCESS", createAuthenticatedUser(u, tk)) :
          u \in Users, tk \in StoredTokens}
  \cup {Act("LOGIN_FAILURE", formatAuthError(Err(st, "", ""))) :
          st \in {0, 401, 403, 500}}
  \cup {Act("REFRESH_TOKEN_SUCCESS", IssueToken(t)) : t \in 0..MaxTime}
  \cup {Act("SET_LOADING", b) : b \in BOOLEAN}

\* useReducer(authReducer, initialState) with nothing else running.
ReducerInit ==
  /\ AppIdle /\ ListIdle /\ FilterIdle /\ SocketIdle /\ CallIdle
  /\ smoke = Null /\ preview = Null /\ fetch = Null
  /\ dispatched = <<>>
  /\ state = initialState

\* dispatch(action)
Dispatch(action) ==
  /\ Len(dispatched) < MaxDispatch
  /\ state' = authReducer(state, action)
  /\ dispatched' = Append(dispatched, action.type)
  /\ UNCHANGED <<storage, now, initPc, initUser, loginCall, logoutPc,
                 refreshPc, authReq, lastResponse, location,
                 validationErrors, navPending, loadedBy, apiReq, cacheVars,
                 listVars, filterVars, socketVars, callVars, smoke, preview,
                 fetch>>

NextReducer == \E action \in AuthActions : Dispatch(action)

SpecReducer == ReducerInit /\ [][NextReducer]_vars

\* ------------------------------------------ a list query that may hang
\* axios.create({ ..., timeout: 10000 }) of the generic client, in ms.
timeout == 10000

\* An axios instance without a timeout (the axios default, 0).
timedOutNever(elapsed) == FALSE

\* axios aborts a request once `timeout` ms passed without a response.
timedOut(elapsed) == timeout > 0 /\ elapsed >= timeout

\* useWagers mounts without cached data: the query function sends the
\* request. hung: no response to any attempt ever arrives; retry: the
\* retry option the query runs with.
FetchStart(hung, retry) ==
  [phase |-> "pending", elapsed |-> 0, failureCount |-> 0, hung |-> hung,
   retry |-> retry, aborted |-> FALSE]

\* isLoading of the query: pending without data.
isLoadingWagers(q) == q.phase = "pending"

FetchStep(q) ==
  /\ fetch' = Some(q)
  /\ UNCHANGED <<smoke, preview, dispatched, scriptFrame>>

\* An attempt failed: the query retries until failureCount exceeds retry.
AttemptFailed(q) ==
  IF q.failureCount < q.retry
  THEN [q EXCEPT !.failureCount = @ + 1, !.elapsed = 0]
  ELSE [q EXCEPT !.failureCount = @ + 1, !.phase = "error"]

\* The clock advances while an attempt waits.
Elapse ==
  /\ fetch # Null /\ fetch[1].phase = "pending"
  /\ fetch[1].elapsed <= timeout
  /\ ~timedOut(fetch[1].elapsed)
  /\ FetchStep([fetch[1] EXCEPT !.elapsed = @ + timeout \div TimeSteps])

\* A response arrives before the timeout.
FetchRespond(status) ==
  /\ fetch # Null /\ fetch[1].phase = "pending"
  /\ ~fetch[1].hung
  /\ ~timedOut(fetch[1].elapsed)
  /\ FetchStep(IF status = 200 THEN [fetch[1] EXCEPT !.phase = "success"]
               ELSE AttemptFailed(fetch[1]))

\* The timeout of the attempt expires: axios rejects it.
FetchTimeout ==
  /\ fetch # Null /\ fetch[1].phase = "pending"
  /\ timedOut(fetch[1].elapsed)
  /\ FetchStep(AttemptFailed([fetch[1] EXCEPT !.aborted = TRUE]))

FetchInit ==
  /\ AppIdle /\ ListIdle /\ FilterIdle /\ SocketIdle /\ CallIdle
  /\ smoke = Null /\ preview = Null /\ dispatched = <<>>
  /\ fetch \in {Some(FetchStart(h, r)) : h \in BOOLEAN, r \in 0..MaxRetry}

NextFetch ==
  \/ Elapse
  \/ \E status \in Statuses : FetchRespond(status)
  \/ FetchTimeout

\* Time passes and timers fire.
SpecFetch ==
  /\ FetchInit /\ [][NextFetch]_vars
  /\ WF_vars(Elapse)
  /\ WF_vars(FetchTimeout)

\* ================================================================ claims
ProtectedPaths == {"/", "/wagers", "/admin"}
Shown == Render(state, location.pathname)
Resolved == ~state.isLoading
LoggedIn == state.isAuthenticated /\ state.user # Null

\* A rendered <Navigate> is the only thing that moves the location of a
\* page that shows a redirect (short of a reload).
RedirectCarriesLocation ==
  (Shown = "redirect" /\ location' # location /\ navPending = "none")
    => location' = Loc("/login", Some(location.pathname))

\* C1: a guarded route shows its children only when the auth state is
\* resolved, authenticated and has a user; while isLoading it shows the
\* loading indicator; resolved but unauthenticated it redirects to /login
\* and the new location carries the attempted one in state.from.
C1_GuardRenders ==
  /\ [](\A p \in ProtectedPaths :
          /\ Render(state, p) = "children" => (Resolved /\ LoggedIn)
          /\ state.isLoading => Render(state, p) = "loading"
          /\ (Resolved /\ ~LoggedIn) => Render(state, p) = "redirect")
  /\ [][RedirectCarriesLocation]_vars

C1_Witness ==
  /\ location.pathname = "/login"
  /\ location.from = Some("/wagers")
  /\ Resolved /\ ~LoggedIn

\* C2: on the admin-guarded route an authenticated non-admin user gets the
\* Access Denied panel and never the children; an admin gets the children.
C2_AdminGate ==
  (Resolved /\ LoggedIn) =>
     /\ state.user[1].role # "admin" => Render(state, "/admin") = "denied"
     /\ state.user[1].role = "admin" => Render(state, "/admin") = "children"

C2_Witness ==
  /\ location.pathname = "/admin"
  /\ Resolved /\ LoggedIn
  /\ state.user[1].role = "user"
  /\ Shown = "denied"

LoginStep == lastResponse'.to \in {"login", "loginRefresh"}
LoginSucceeded == lastResponse'.to = "login" /\ lastResponse'.status = 200
LoginFailed ==
  LoginStep /\ lastResponse'.settled # "pending" /\ ~LoginSucceeded

\* C3: login ends authenticated exactly when the service call succeeds:
\* then token and user are persisted and the state is {user, authenticated,
\* not loading, no error}; when it fails the state is {no user,
\* unauthenticated, not loading, error = formatted message} and the error
\* is re-thrown.
C3_LoginOutcome ==
  [][/\ LoginSucceeded =>
          /\ lastResponse'.settled = "resolved"
          /\ storage'.token # Null
          /\ storage'.user = Some(Stringify(loginCall.user[1]))
          /\ state' = [user |-> Some([id |-> loginCall.user[1].id,
                                      role |-> loginCall.user[1].role,
                                      token |-> storage'.token[1]]),
                       isAuthenticated |-> TRUE, isLoading |-> FALSE,
                       error |-> NoError]
     /\ LoginFailed =>
          /\ lastResponse'.settled = "rejected"
          /\ state'.user = Null
          /\ ~state'.isAuthenticated
          /\ ~state'.isLoading
          /\ state'.error # NoError
          /\ (lastResponse'.to = "login" /\ lastResponse'.status = 500)
               => state'.error = "Server error. Please try again later."
          /\ (lastResponse'.to = "login" /\ lastResponse'.status = 401)
               => state'.error \in {"Invalid username or password",
                                    "Invalid credentials"}
    ]_vars

C3_Witness ==
  /\ lastResponse = Resp("login", 200, "resolved")
  /\ LoggedIn
  /\ storage.user # Null

LogoutEnded ==
  /\ lastResponse'.to \in {"logout", "logoutRefresh"}
  /\ lastResponse'.settled # "pending"

\* C4: logout always ends with {no user, unauthenticated, not loading, no
\* error} and with access token, refresh token and user record removed
\* from storage, whatever the logout endpoint answered, and never throws.
C4_LogoutUnconditional ==
  [][LogoutEnded =>
       /\ state' = [user |-> Null, isAuthenticated |-> FALSE,
                    isLoading |-> FALSE, error |-> NoError]
       /\ storage'.token = Null
       /\ storage'.refreshToken = Null
       /\ storage'.user = Null
       /\ lastResponse'.settled = "resolved"
    ]_vars

C4_Witness ==
  /\ lastResponse = Resp("logout", 500, "resolved")
  /\ storage.token = Null /\ storage.user = Null
  /\ ~state.isAuthenticated

InitRan == initPc = "start" /\ initPc' # "start"
InitRefreshed == initPc = "refreshing" /\ lastResponse'.to = "initRefresh"
LoggedOutState(err) ==
  [user |-> Null, isAuthenticated |-> FALSE, isLoading |-> FALSE,
   error |-> err]
CredentialsCleared(ls) ==
  ls.token = Null /\ ls.refreshToken = Null /\ ls.user = Null

\* C5: on mount with a persisted token and user: token not expired ->
\* authenticated with the stored token, no network call; expired -> a
\* refresh is attempted, its success gives the authenticated state with
\* the refreshed token, its failure clears the credentials and gives
\* {unauthenticated, "Session expired. Please log in again."}. With token
\* or user absent the state becomes unauthenticated, not loading, no error.
C5_SessionRestore ==
  [][/\ (InitRan /\ storage.token # Null /\ storage.user # Null
           /\ ~isTokenExpired(storage.token[1], now)) =>
          /\ initPc' = "done"
          /\ storage' = storage
          /\ state'.isAuthenticated /\ ~state'.isLoading
          /\ state'.user # Null
          /\ state'.user[1].token = storage.token[1]
     /\ (InitRan /\ storage.token # Null /\ storage.user # Null
           /\ isTokenExpired(storage.token[1], now)) =>
          \/ initPc' = "refreshing"
          \/ /\ initPc' = "done"
             /\ storage.refreshToken = Null
             /\ CredentialsCleared(storage')
             /\ state' = LoggedOutState(SessionExpired)
     /\ (InitRefreshed /\ lastResponse'.status = 200) =>
          /\ state'.isAuthenticated /\ ~state'.isLoading
          /\ state'.user # Null
          /\ storage'.token # Null
          /\ storage'.token # storage.token
          /\ state'.user[1].token = storage'.token[1]
     /\ (InitRefreshed /\ lastResponse'.status # 200) =>
          /\ CredentialsCleared(storage')
          /\ state' = LoggedOutState(SessionExpired)
     /\ (InitRan /\ (storage.token = Null \/ storage.user = Null)) =>
          /\ initPc' = "done"
          /\ state' = LoggedOutState(NoError)
    ]_vars

C7_BearerAttached ==
  [][(apiReq.phase = "idle" /\ apiReq'.phase = "sent"
        /\ getToken(storage) # Null)
       => apiReq'.hdr = getToken(storage)]_vars

\* C8: a 401 on the generic client clears the persisted credentials and
\* hard-navigates to /login, and the reloaded application initialises as
\* unauthenticated.
C8_UnauthorizedForcesLogin ==
  [][/\ (lastResponse'.to = "api" /\ lastResponse'.status = 401) =>
          /\ navPending' = "api401"
          /\ storage'.token = Null
          /\ storage'.authToken = Null
     /\ (loadedBy = "api401" /\ initPc' = "done") =>
          ~state'.isAuthenticated
    ]_vars

\* C9: a request on authApi is replayed at most once; after a successful
\* refresh the new token is persisted and the replay carries it; whenever
\* the refresh does not succeed the credentials are cleared and the
\* browser is hard-navigated to /login.
C9_RefreshAndReplay ==
  /\ [](\A c \in Callers : authReq[c].replays <= 1)
  /\ [][\A c \in Callers :
          LET first401 == /\ authReq[c].phase = "sent"
                          /\ ~authReq[c].retry
                          /\ lastResponse'.to = c
                          /\ lastResponse'.status = 401
              refreshed == /\ authReq[c].phase = "refreshing"
                           /\ lastResponse'.to = c \o "Refresh"
          IN /\ first401 =>
                  \/ authReq'[c].phase = "refreshing"
                  \/ CredentialsCleared(storage') /\ navPending' = "auth401"
             /\ (refreshed /\ lastResponse'.status = 200) =>
                  /\ storage'.token # Null
                  /\ storage'.token # storage.token
                  /\ authReq'[c].phase = "sent"
                  /\ authReq'[c].hdr = storage'.token
             /\ (refreshed /\ lastResponse'.status # 200) =>
                  /\ CredentialsCleared(storage')
                  /\ navPending' = "auth401"
       ]_vars

StatusSettled == lastResponse'.to = "status"

\* C10: a successful status update for wager id puts the server's
\* response, carrying the new status, into cache entry ['wager', id] in the
\* same step (no refetch) and only marks the list cache stale; the list
\* data changes with its next read and not before; a failed status update
\* changes neither entry.
C10_CacheAfterStatusUpdate ==
  [][/\ (StatusSettled /\ lastResponse'.status = 200) =>
          LET m == lastMutation'[1]
          IN /\ wagerCache'[m.id] # Null
             /\ wagerCache'[m.id][1].data = [id |-> m.id, status |-> m.status]
             /\ \A i \in Ids \ {m.id} : wagerCache'[i] = wagerCache[i]
             /\ listCache # Null =>
                  /\ listCache' # Null
                  /\ listCache'[1].stale
                  /\ listCache'[1].data = listCache[1].data
     /\ (StatusSettled /\ lastResponse'.status # 200) =>
          /\ wagerCache' = wagerCache
          /\ listCache' = listCache
     /\ (listCache # Null /\ listCache' # Null
           /\ listCache'[1].data # listCache[1].data) =>
          /\ lastResponse' = Resp("list", 200, "resolved")
          /\ listCache[1].stale
    ]_vars

C10_Witness ==
  /\ lastResponse = Resp("status", 200, "resolved")
  /\ lastMutation # Null
  /\ lastMutation[1].status = "won"
  /\ wagerCache[lastMutation[1].id] # Null
  /\ wagerCache[lastMutation[1].id][1].data.status = "won"
  /\ listCache # Null
  /\ listCache[1].stale
  /\ listCache[1].data[lastMutation[1].id] = "pending"

\* A step in which an item of the bulk menu called the status handler.
BulkStatusStep ==
  /\ bulkMenuAnchor
  /\ ~bulkMenuAnchor'
  /\ handlerCalls' # <<>>
  /\ handlerCalls'[1].fn = "onWagerStatusUpdate"

\* C11: choosing a bulk status S with N wagers selected calls the status
\* handler exactly N times, once per selected id and each time with S, for
\* no id outside the selection, and leaves the selection empty.
C11_BulkStatusCalls ==
  [][BulkStatusStep =>
       /\ Len(handlerCalls') = Len(selectedWagers)
       /\ Len(selectedWagers) = Cardinality(Range(selectedWagers))
       /\ \A id \in Range(selectedWagers) :
            Cardinality({k \in 1..Len(handlerCalls') :
                           handlerCalls'[k].id = id}) = 1
       /\ \A k \in 1..Len(handlerCalls') :
            /\ handlerCalls'[k].id \in Range(selectedWagers)
            /\ handlerCalls'[k].fn = "onWagerStatusUpdate"
            /\ handlerCalls'[k].arg = handlerCalls'[1].arg
       /\ handlerCalls'[1].arg \in UpdateStatuses
       /\ selectedWagers' = <<>>
    ]_vars

C11_Witness ==
  /\ Len(handlerCalls) >= 2
  /\ \A k \in 1..Len(handlerCalls) :
       handlerCalls[k] = Call("onWagerStatusUpdate", handlerCalls[k].id, "won")
  /\ selectedWagers = <<>>
  /\ ~bulkMenuAnchor

\* The decoded values a query string carries under a name.
ParamValues(url, name) ==
  {DecodeText(url[k].value) : k \in {j \in 1..Len(url) : url[j].name = name}}

ApplyStep == showFilters /\ localFilters # Null /\ filterEvent' = "apply"

\* C12: an edit in the filter panel changes the draft and nothing else;
\* Apply makes the list request carry the filters set in the draft and no
\* others (status=pending,won and archived=false for that draft) and
\* resets the current page to 1 from any page.
C12_FilterApply ==
  [][/\ filterEvent' = "edit" =>
          /\ filters' = filters
          /\ currentPage' = currentPage
          /\ lastRequest' = lastRequest
     /\ ApplyStep =>
          LET draft == localFilters[1]
          IN /\ currentPage' = 1
             /\ ParamValues(lastRequest', "page") = {<<"1">>}
             /\ ParamValues(lastRequest', "status") =
                  IF draft.status = <<>> THEN {} ELSE {Join(draft.status)}
             /\ ParamValues(lastRequest', "archived") =
                  IF draft.archived = Null THEN {}
                  ELSE {BoolText(draft.archived[1])}
             /\ ParamValues(lastRequest', "search") =
                  IF TextOf(draft.search) = "" THEN {}
                  ELSE {<<draft.search[1]>>}
             /\ ParamValues(lastRequest', "sortBy") =
                  IF draft.sortBy = Null THEN {} ELSE {<<draft.sortBy[1]>>}
             /\ (draft.status = <<"pending", "won">>
                   /\ draft.archived = Some(FALSE)) =>
                  /\ ParamValues(lastRequest', "status") =
                       {<<"pending", ",", "won">>}
                  /\ ParamValues(lastRequest', "archived") = {<<"false">>}
    ]_vars

C12_Witness ==
  /\ filterEvent = "apply"
  /\ filters.status = <<"pending", "won">>
  /\ filters.archived = Some(FALSE)
  /\ filters.sortBy = Null
  /\ currentPage = 1
  /\ ParamValues(lastRequest, "status") = {<<"pending", ",", "won">>}
  /\ ParamValues(lastRequest, "sortBy") = {}

\* Sockets that are connected or still connecting.
LiveSockets ==
  {i \in 1..Len(sockets) : sockets[i] \in {"connecting", "connected"}}

\* C13: counted from the last successful connect, the timers of the
\* service start at most 5 reconnects; with the count at 5 no event sets
\* another timer; a server-initiated disconnect sets no timer and counts
\* nothing; any other disconnect or a connection error below the limit
\* counts one attempt and sets one timer; a 'connect' resets the count.
C13_ReconnectCap ==
  /\ [](reconnectsMade <= maxReconnectAttempts
          /\ reconnectAttempts <= maxReconnectAttempts)
  /\ [][/\ reconnectAttempts = maxReconnectAttempts => timers' <= timers
        /\ socketEvent' = "io server disconnect" =>
             /\ timers' = timers
             /\ reconnectAttempts' = reconnectAttempts
        /\ socketEvent' = "connect" => reconnectAttempts' = 0
        /\ (socketEvent' \in {"transport close", "connect_error"}
              /\ reconnectAttempts < maxReconnectAttempts) =>
             /\ timers' = timers + 1
             /\ reconnectAttempts' = reconnectAttempts + 1
       ]_vars

\* C14: the service never has two live sockets, and connect() with a live
\* socket in this.socket (connected or connecting) makes no new one.
C14_SingleSocket ==
  /\ [](Cardinality(LiveSockets) <= 1)
  /\ [][(socketEvent' = "connect()" /\ socket # Null
           /\ socket[1] \in LiveSockets) => sockets' = sockets]_vars


\* C15: a bulk delete of an id list sends a DELETE request whose request
\* body carries exactly that id list.
C15_BulkDeleteBody ==
  Returned("bulkDelete") =>
    /\ outcome[1].method = "DELETE"
    /\ outcome[1].body # Null
    /\ outcome[1].body[1].ids = call[1].ids

\* C16: isTokenExpired reports a token valid only when its payload decodes
\* to JSON with an exp claim that is not in the past; every other token is
\* reported expired.
C16_FailClosed ==
  Returned("isTokenExpired") =>
    (outcome[1] = FALSE
       <=> (call[1].token.kind = "jwt"
            /\ call[1].token.exp >= call[1].time))

\* C18: the potential payout is shown only when the computed payout is a
\* finite number; a line without numeric content and a line whose parsed
\* odds are 0 give a hidden payout.
C18_PayoutFinite ==
  Returned("calculatePayout") =>
    (outcome[1].shown =>
       (outcome[1].payout # Null /\ outcome[1].payout[1].kind = "num"))


\* C17: reading the persisted user record never raises an error; for an
\* absent or malformed record getUser yields no value and session restore
\* ends unauthenticated and not loading.
C17_GetUserNoError ==
  /\ [](initPc # "threw")
  /\ [][(InitRan /\ getUser(storage).value = Null) =>
          /\ ~getUser(storage).threw
          /\ initPc' = "done"
          /\ ~state'.isAuthenticated
          /\ ~state'.isLoading]_vars

\* A step in which the status menu of the card of wager id, or a status
\* button of its detail view, called the status handler.
CardStatusStep(id) ==
  /\ ~bulkMenuAnchor
  /\ handlerCalls' # <<>>
  /\ handlerCalls'[1].id = id
  /\ handlerCalls'[1].fn \in {"onWagerStatusUpdate", "detail.onStatusUpdate"}

\* C19: a card shows a status-change control exactly when its wager is
\* pending and not archived and actions are enabled, the detail view exactly
\* when the wager is pending and not archived; the status handler is never
\* called from a card or detail view for an archived or non-pending wager.
C19_StatusControlsActiveOnly ==
  /\ [](\A id \in Ids :
          /\ cards[id] # Null =>
               ((CardView(id).statusButton \/ CardView(id).statusMenu)
                  <=> (isActive(wagers[id][1]) /\ showActions))
          /\ wagers[id] # Null =>
               (WagerDetail(wagers[id][1]).statusButtons
                  <=> isActive(wagers[id][1])))
  /\ [][\A id \in Ids :
          CardStatusStep(id) =>
            (wagers[id] # Null /\ isActive(wagers[id][1]))]_vars

\* A step in which an item of the overflow menu of the card of wager id
\* called the edit, archive or delete handler.
CardMenuStep(id) ==
  /\ ~bulkMenuAnchor
  /\ handlerCalls' # <<>>
  /\ handlerCalls'[1].id = id
  /\ handlerCalls'[1].fn \in {"onWagerEdit", "onWagerArchive", "onWagerDelete"}

\* C20: a card offers its overflow menu button exactly when actions are
\* enabled, whatever the status and archived flag of its wager. Edit,
\* archive and delete are called from a card only by an item of its open
\* overflow menu, which closes; edit only with an edit handler supplied,
\* archive with the opposite of the wager's archived flag.
C20_OverflowMenuWhenActions ==
  /\ [](\A id \in Ids :
          cards[id] # Null => (CardView(id).menuButton <=> showActions))
  /\ [][\A id \in Ids :
          CardMenuStep(id) =>
            /\ cards[id] # Null
            /\ cards[id][1].anchorEl
            /\ ~cards'[id][1].anchorEl
            /\ Len(handlerCalls') = 1
            /\ handlerCalls'[1].fn = "onWagerEdit" => onWagerEdit
            /\ handlerCalls'[1].fn = "onWagerArchive" =>
                 handlerCalls'[1].arg = ~wagers[id][1].archived]_vars

\* An archived wager was unarchived from the overflow menu of its card.
C20_Witness ==
  /\ ~showBulkActions
  /\ \E id \in Ids :
       /\ wagers[id] # Null
       /\ wagers[id][1].archived
       /\ cards[id] # Null
       /\ CardView(id).menuButton
       /\ handlerCalls = <<Call("onWagerArchive", id, FALSE)>>

\* C20 as stated: the overflow menu is offered only for an active wager, and
\* edit, archive and delete cannot be called from the card of an archived or
\* non-pending wager.
C20_OverflowMenuActiveOnly ==
  /\ [](\A id \in Ids :
          cards[id] # Null =>
            (CardView(id).menuButton => isActive(wagers[id][1])))
  /\ [][\A id \in Ids :
          CardMenuStep(id) =>
            (wagers[id] # Null /\ isActive(wagers[id][1]))]_vars

\* C21: every exit of ci_smoke.sh after the trap is registered runs the
\* teardown of the compose stack, once; the script makes at most 30 health
\* polls, 2 seconds apart, exits non-zero when none of them succeeded, and
\* exits zero only after a successful one.
C21_SmokeTeardown ==
  smoke # Null =>
    LET s == smoke[1]
    IN /\ s.pc = "exited" => (s.teardowns = 1 /\ s.stack = "none")
       /\ s.pc # "exited" => s.teardowns = 0
       /\ s.polls <= MaxAttempts
       /\ (s.polls > 0 /\ s.pc \in {"poll", "sleep"}) =>
            s.slept = SleepSeconds * (s.polls - (IF s.pc = "sleep" THEN 1 ELSE 0))
       /\ (s.exit # Null /\ ~s.healthy) => s.exit # Some(0)
       /\ (s.exit # Null /\ s.healthy) => s.exit = Some(0)
       /\ (s.polls = MaxAttempts /\ ~s.healthy) => s.exit = Some(1)

\* Thirty polls failed: the script exited 1 and the stack was torn down.
C21_Witness ==
  /\ smoke # Null
  /\ smoke[1].pc = "exited"
  /\ smoke[1].polls = MaxAttempts
  /\ smoke[1].slept = SleepSeconds * (MaxAttempts - 1)
  /\ smoke[1].exit = Some(1)
  /\ smoke[1].teardowns = 1
  /\ smoke[1].stack = "none"

\* C30: when the preview setup script has exited with failure after the
\* compose project was brought up or the tunnel was launched, these were
\* torn down or the state file that preview_cleanup.sh needs exists.
C30_PreviewNoOrphans ==
  (/\ preview # Null
   /\ preview[1].pc = "exited"
   /\ preview[1].exit # Some(0)
   /\ preview[1].stack = "up" \/ preview[1].tunnel = "running")
  => preview[1].stateFile

\* C23: after every sequence of actions dispatched to the auth reducer,
\* isAuthenticated is true exactly when user is non-null.
C23_AuthenticatedIffUser ==
  state.isAuthenticated <=> state.user # Null

\* A session was refreshed and a later action ended it.
C23_Witness ==
  /\ Len(dispatched) = 3
  /\ dispatched[1] = "LOGIN_SUCCESS"
  /\ dispatched[2] = "REFRESH_TOKEN_SUCCESS"
  /\ dispatched[3] \in {"LOGOUT", "LOGIN_FAILURE", "REFRESH_TOKEN_FAILURE"}
  /\ ~state.isAuthenticated

\* C24: whenever no auth operation is in flight, the auth state is
\* authenticated exactly when persisted storage holds both an access token
\* and a user record.
C24_StateMatchesStorage ==
  AuthIdle =>
    (state.isAuthenticated
       <=> (getToken(storage) # Null /\ storage.user # Null))

\* C25: for every content of persisted storage, the initialization started
\* by a mount eventually sets isLoading to false.
C25_InitEndsLoading ==
  (initPc = "start") ~> (~state.isLoading)

\* C26: once every status update in flight has settled, the cache entry
\* ['wager', id] holds the status the server applied last, whatever the
\* order in which the responses arrived.
C26_CacheHoldsLastApplied ==
  mutations = {} =>
    \A id \in Ids :
      wagerCache[id] # Null => wagerCache[id][1].data.status = server[id]

\* C22: the generic HTTP client has a request timeout: no attempt of a
\* wager request waits longer than the timeout, and a request whose
\* response never arrives settles (as an error), which ends the loading
\* state of the component that started it.
C22_HungRequestSettles ==
  /\ [](fetch # Null =>
          (isLoadingWagers(fetch[1]) => fetch[1].elapsed <= timeout))
  /\ (fetch # Null /\ fetch[1].hung /\ isLoadingWagers(fetch[1]))
       ~> (fetch # Null /\ fetch[1].phase = "error" /\ fetch[1].aborted)

\* A hung request was aborted by the timeout and the query ended in error.
C22_Witness ==
  /\ fetch # Null
  /\ fetch[1].hung
  /\ fetch[1].phase = "error"
  /\ fetch[1].aborted
  /\ fetch[1].elapsed = timeout
  /\ ~isLoadingWagers(fetch[1])

\* C22 as stated: a wager request whose response never arrives never
\* settles; its component stays in the loading state.
C22_HungNeverSettles ==
  [](fetch # Null /\ fetch[1].hung => isLoadingWagers(fetch[1]))

\* C29: the selection of the WagerList holds ids of displayed wagers only;
\* Select All shows checked only when every displayed wager is selected,
\* and a bulk action calls its handler for displayed wagers only.
C29_SelectionDisplayed ==
  /\ [](Range(selectedWagers) \subseteq Displayed(wagers))
  /\ [](allSelected => Displayed(wagers) \subseteq Range(selectedWagers))
  /\ [][(bulkMenuAnchor /\ handlerCalls' # <<>>) =>
          \A k \in 1..Len(handlerCalls') :
            handlerCalls'[k].id \in Displayed(wagers)]_vars

\* C27: no committed filter change is lost: once no debounced callback is
\* pending, the filter set of the Wagers page holds the search text entered
\* last and the panel fields applied (or cleared) last.
C27_NoFilterChangeLost ==
  searchInput.timer = Null =>
    /\ searchLog.typed # Null =>
         TextOf(filters.search) = searchLog.typed[1]
    /\ searchLog.applied # Null =>
         PanelFields(filters) = searchLog.applied[1]

\* C28: after the clear button of the SearchInput was used, the value
\* delivered last to onChange is the empty string.
C28_ClearDeliveredLast ==
  searchLog.cleared => searchLog.delivered = Some("")
====
